---- MODULE Spec2Model ----
(***************************************************************************)
(* Gesture recognition core of the video-chat client:                      *)
(*   handUtils (calculateDistance, calculateAngle, extractBothHandsFeatures,*)
(*   extractSingleHandFeatures) and signRecognitionService (recognizeSign, *)
(*   checkFeatureMatch, resetRecognition).                                 *)
(*                                                                         *)
(* Number representation.  Coordinates and distances are whole hundredths  *)
(* (0.2 is 20), angles are whole degrees, scores and confidences are whole *)
(* multiples of 1/ScoreUnit (1.0 is ScoreUnit).  Arithmetic is exact.      *)
(***************************************************************************)
EXTENDS Integers, Sequences, FiniteSets, TLC

VARIABLES
  recentDetections,    \* module variable: the recent best matches, oldest first
  lastSentDetection,   \* module variable: text of the last returned event
  gestureData,         \* argument of the latest recognizeSign call
  features,            \* local of the latest call: extractBothHandsFeatures result
  matchScores,         \* local of the latest call: sign -> score
  bestMatch,           \* local of the latest call
  highestScore,        \* local of the latest call
  result,              \* value returned by the latest call
  pc,                  \* statement at which the latest call finished
  before,              \* history: the module variables when the latest call began
  lastEvent,           \* history: text of the latest returned event since the last reset
  run,                 \* history: the run of equal full-score frames since the last reset
  fresh,               \* history: a stabilizer constructed anew at the last reset, and
                       \*          whether that reset had anything to clear
  streak,              \* history: the frames in a row with one best match above 0.7 that
                       \*          began with another label sent last and gave no event yet
  clean,               \* history: a stabilizer that is not given the frames whose feature
                       \*          extraction throws, and whether there was such a frame
  session,             \* history: the session whose frame the latest call processed
  alone,               \* history: per session, a stabilizer that saw that session's frames only
  calls,               \* history: the number of calls made for the sessions
  previous,            \* history: the frame and result of the extraction before the latest
  points,              \* arguments of calculateDistance or calculateAngle
  measured,            \* their results, for the arguments as given and in reverse order
  messages,            \* server: the messages the controller holds
  request,             \* server: the latest request
  response,            \* server: the response to it
  invocations,         \* async: the recognizeSign invocations whose callers have not resumed
  serial,              \* history: the module variables had the invocations run one by one
  received,            \* async: the result the latest resumed caller got
  clock,               \* VideoFeed: Date.now()
  lastDetectionTime,   \* VideoFeed: the state set by setLastDetectionTime
  isCameraOn,          \* VideoFeed: the state set by setIsCameraOn
  detectedHands,       \* VideoFeed: the length of the state set by setDetectedHands
  forwarded,           \* history: when onSignDetected was called last, and the time before
  chat,                \* App: the state set by setMessages
  isProcessing,        \* App: the state set by setIsProcessing
  avatarAnimation,     \* App: the state set by setAvatarAnimation
  currentSign,         \* App: the state set by setCurrentSign
  timers,              \* App: the setTimeout callbacks of handleSignDetected not yet run
  aiCalls,             \* App: the getAIResponse calls that await fetch or response.json()
  completed,           \* history: the getAIResponse call that the latest step completed
  replies,             \* server: the responses aiChat has sent to the latest request
  awaiting,            \* server: the user message aiChat awaits the OpenAI completion of
  settled              \* history: how the OpenAI call of the latest request settled

recognitionVars == <<recentDetections, lastSentDetection, gestureData, features, matchScores,
                     bestMatch, highestScore, result, pc, before, lastEvent, run, fresh,
                     streak, clean>>
sessionVars == <<session, alone, calls>>
handVars == <<previous, points, measured>>
serverVars == <<messages, request, response>>
asyncVars == <<invocations, serial, received>>
feedVars == <<clock, lastDetectionTime, isCameraOn, detectedHands, forwarded>>
chatVars == <<chat, isProcessing, avatarAnimation, currentSign, timers, aiCalls, completed>>
aiVars == <<replies, awaiting, settled>>
restVars == <<asyncVars, feedVars, chatVars, aiVars>>

vars == <<recognitionVars, sessionVars, handVars, serverVars, asyncVars, feedVars, chatVars,
          aiVars>>

---------------------------------------------------------------------------
(* JavaScript values *)

Null == [null |-> TRUE]          \* null where an object is expected
NullSign == "null"               \* null where a sign name is expected
NaN == -1000                     \* Math.acos(0/0); every comparison with it is false
Undefined == "undefined"         \* undefined where a string is expected

ScoreUnit == 120                 \* 1.0 as a score; 120 is divisible by every check count
Tenths(n) == (n * ScoreUnit) \div 10

Gte(a, b) == a # NaN /\ b # NaN /\ a >= b
Lte(a, b) == a # NaN /\ b # NaN /\ a <= b

---------------------------------------------------------------------------
(* The template table *)

Range(lo, hi) == [type |-> "range", min |-> lo, max |-> hi]
Flag(b) == [type |-> "boolean", value |-> b]

\* Object.keys(bothHandsSignPatterns): the keys in declaration order
SignOrder == <<"HELLO", "THANK YOU", "YES", "NO", "PLEASE", "LOVE">>
Signs == {SignOrder[i] : i \in 1..Len(SignOrder)}

bothHandsSignPatterns ==
  [ sign \in Signs |->
      CASE sign = "HELLO" ->
             [ requiresBothHands |-> FALSE, bothHands |-> Null, leftHand |-> Null,
               rightHand |-> [ thumbToIndex |-> Range(10, 30),
                               indexAngle |-> Range(150, 180) ] ]
        [] sign = "THANK YOU" ->
             [ requiresBothHands |-> TRUE,
               bothHands |-> [ handsDistance |-> Range(20, 50),
                               handsSymmetric |-> Flag(TRUE) ],
               leftHand |-> [thumbToIndex |-> Range(20, 40)],
               rightHand |-> [thumbToIndex |-> Range(20, 40)] ]
        [] sign = "YES" ->
             [ requiresBothHands |-> FALSE, bothHands |-> Null, leftHand |-> Null,
               rightHand |-> [ thumbAngle |-> Range(20, 50),
                               indexAngle |-> Range(140, 170) ] ]
        [] sign = "NO" ->
             [ requiresBothHands |-> TRUE,
               bothHands |-> [indexFingertipsDistance |-> Range(30, 70)],
               leftHand |-> Null, rightHand |-> Null ]
        [] sign = "PLEASE" ->
             [ requiresBothHands |-> TRUE,
               bothHands |-> [ handsDistance |-> Range(10, 30),
                               handsSymmetric |-> Flag(TRUE) ],
               leftHand |-> Null, rightHand |-> Null ]
        [] sign = "LOVE" ->
             [ requiresBothHands |-> FALSE, bothHands |-> Null, leftHand |-> Null,
               rightHand |-> [ thumbToIndex |-> Range(15, 35),
                               pinkyAngle |-> Range(160, 180) ] ] ]

MAX_RECENT_DETECTIONS == 5

\* declared in recognizeSign and used by none of its statements
MIN_CONSISTENT_DETECTIONS == 3

---------------------------------------------------------------------------
(* handUtils *)

Z(p) == IF "z" \in DOMAIN p THEN p.z ELSE 0        \* (landmark.z || 0)

\* Math.sqrt of a perfect square
Sqrt(n) == CHOOSE r \in 0..n : r * r = n

\* calculateDistance in the plane, without dz
calculateDistance_flat(landmark1, landmark2) ==
  LET dx == landmark1.x - landmark2.x
      dy == landmark1.y - landmark2.y
  IN Sqrt(dx * dx + dy * dy)

calculateDistance(landmark1, landmark2) ==
  LET dx == landmark1.x - landmark2.x
      dy == landmark1.y - landmark2.y
      dz == Z(landmark1) - Z(landmark2)
  IN Sqrt(dx * dx + dy * dy + dz * dz)

\* 4 * cos(a)^2 for the angles whose squared cosine is a multiple of 1/4
Cos2x4(a) == CASE a \in {0, 180} -> 4
               [] a \in {30, 150} -> 3
               [] a \in {45, 135} -> 2
               [] a \in {60, 120} -> 1
               [] a = 90 -> 0

\* Math.acos(dot / sqrt(mm)) * (180 / Math.PI), mm > 0
AcosDeg(dot, mm) ==
  CHOOSE a \in {0, 30, 45, 60, 90, 120, 135, 150, 180} :
    /\ Cos2x4(a) * mm = 4 * dot * dot
    /\ (a < 90) = (dot > 0)
    /\ (a > 90) = (dot < 0)

\* calculateAngle without the "|| 0" for landmark3: a missing z makes the result NaN
calculateAngle_needsZ(landmark1, landmark2, landmark3) ==
  LET vector1 == [x |-> landmark1.x - landmark2.x, y |-> landmark1.y - landmark2.y,
                  z |-> Z(landmark1) - Z(landmark2)]
      vector2 == [x |-> landmark3.x - landmark2.x, y |-> landmark3.y - landmark2.y,
                  z |-> Z(landmark3) - Z(landmark2)]
      dotProduct == vector1.x * vector2.x + vector1.y * vector2.y + vector1.z * vector2.z
      sq1 == vector1.x * vector1.x + vector1.y * vector1.y + vector1.z * vector1.z
      sq2 == vector2.x * vector2.x + vector2.y * vector2.y + vector2.z * vector2.z
  IN IF sq1 * sq2 = 0 \/ "z" \notin DOMAIN landmark3 THEN NaN
     ELSE AcosDeg(dotProduct, sq1 * sq2)

calculateAngle(landmark1, landmark2, landmark3) ==
  LET vector1 == [x |-> landmark1.x - landmark2.x, y |-> landmark1.y - landmark2.y,
                  z |-> Z(landmark1) - Z(landmark2)]
      vector2 == [x |-> landmark3.x - landmark2.x, y |-> landmark3.y - landmark2.y,
                  z |-> Z(landmark3) - Z(landmark2)]
      dotProduct == vector1.x * vector2.x + vector1.y * vector2.y + vector1.z * vector2.z
      sq1 == vector1.x * vector1.x + vector1.y * vector1.y + vector1.z * vector1.z
      sq2 == vector2.x * vector2.x + vector2.y * vector2.y + vector2.z * vector2.z
  IN IF sq1 * sq2 = 0 THEN NaN ELSE AcosDeg(dotProduct, sq1 * sq2)

\* landmarks[i] of a JavaScript array
At(landmarks, i) == landmarks[i + 1]

extractSingleHandFeatures(landmarks) ==
  [ thumbToWrist  |-> calculateDistance(At(landmarks, 4), At(landmarks, 0)),
    indexToWrist  |-> calculateDistance(At(landmarks, 8), At(landmarks, 0)),
    middleToWrist |-> calculateDistance(At(landmarks, 12), At(landmarks, 0)),
    ringToWrist   |-> calculateDistance(At(landmarks, 16), At(landmarks, 0)),
    pinkyToWrist  |-> calculateDistance(At(landmarks, 20), At(landmarks, 0)),
    thumbAngle    |-> calculateAngle(At(landmarks, 2), At(landmarks, 3), At(landmarks, 4)),
    indexAngle    |-> calculateAngle(At(landmarks, 6), At(landmarks, 7), At(landmarks, 8)),
    middleAngle   |-> calculateAngle(At(landmarks, 10), At(landmarks, 11), At(landmarks, 12)),
    ringAngle     |-> calculateAngle(At(landmarks, 14), At(landmarks, 15), At(landmarks, 16)),
    pinkyAngle    |-> calculateAngle(At(landmarks, 18), At(landmarks, 19), At(landmarks, 20)),
    thumbToIndex  |-> calculateDistance(At(landmarks, 4), At(landmarks, 8)),
    indexToMiddle |-> calculateDistance(At(landmarks, 8), At(landmarks, 12)),
    middleToRing  |-> calculateDistance(At(landmarks, 12), At(landmarks, 16)),
    ringToPinky   |-> calculateDistance(At(landmarks, 16), At(landmarks, 20)) ]

\* landmarks[20] of a shorter list is undefined and reading its x throws a TypeError
ExtractionThrows(handsData) ==
  \E i \in 1..Len(handsData) : Len(handsData[i].landmarks) < 21

Abs(n) == IF n < 0 THEN -n ELSE n

\* LastHandFeatures with a plain else: every hand that is not Left counts as Right
LastHandFeatures_else(handsData, side) ==
  LET idx == {i \in 1..Len(handsData) :
                IF side = "Right" THEN handsData[i].handedness # "Left"
                ELSE handsData[i].handedness = side}
  IN IF idx = {} THEN Null
     ELSE extractSingleHandFeatures(handsData[CHOOSE i \in idx : \A j \in idx : j <= i].landmarks)

\* handsData.forEach: a later hand of the same side overwrites an earlier one
LastHandFeatures(handsData, side) ==
  LET idx == {i \in 1..Len(handsData) : handsData[i].handedness = side}
  IN IF idx = {} THEN Null
     ELSE extractSingleHandFeatures(handsData[CHOOSE i \in idx : \A j \in idx : j <= i].landmarks)

\* handsData.find: the first hand of that side
FindHand(handsData, side) ==
  LET idx == {i \in 1..Len(handsData) : handsData[i].handedness = side}
  IN handsData[CHOOSE i \in idx : \A j \in idx : i <= j]

\* extractBothHandsFeatures with <= 0.1 for handsSymmetric
extractBothHandsFeatures_atMost(handsData) ==
  LET left == LastHandFeatures(handsData, "Left")
      right == LastHandFeatures(handsData, "Right")
      leftHand == FindHand(handsData, "Left")
      rightHand == FindHand(handsData, "Right")
  IN [ leftHand |-> left,
       rightHand |-> right,
       bothHands |->
         IF left # Null /\ right # Null
         THEN [ handsDistance |->
                  calculateDistance(At(leftHand.landmarks, 9), At(rightHand.landmarks, 9)),
                indexFingertipsDistance |->
                  calculateDistance(At(leftHand.landmarks, 8), At(rightHand.landmarks, 8)),
                leftHandHigher |->
                  At(leftHand.landmarks, 9).y < At(rightHand.landmarks, 9).y,
                handsSymmetric |->
                  Abs(At(leftHand.landmarks, 9).y - At(rightHand.landmarks, 9).y) <= 10 ]
         ELSE Null ]

extractBothHandsFeatures(handsData) ==
  LET left == LastHandFeatures(handsData, "Left")
      right == LastHandFeatures(handsData, "Right")
      leftHand == FindHand(handsData, "Left")
      rightHand == FindHand(handsData, "Right")
  IN [ leftHand |-> left,
       rightHand |-> right,
       bothHands |->
         IF left # Null /\ right # Null
         THEN [ handsDistance |->
                  calculateDistance(At(leftHand.landmarks, 9), At(rightHand.landmarks, 9)),
                indexFingertipsDistance |->
                  calculateDistance(At(leftHand.landmarks, 8), At(rightHand.landmarks, 8)),
                leftHandHigher |->
                  At(leftHand.landmarks, 9).y < At(rightHand.landmarks, 9).y,
                handsSymmetric |->
                  Abs(At(leftHand.landmarks, 9).y - At(rightHand.landmarks, 9).y) < 10 ]
         ELSE Null ]

---------------------------------------------------------------------------
(* signRecognitionService: template matching *)

\* FeatureMatches with < max in place of <= max
FeatureMatches_exclusive(featureValue, patternValue) ==
  IF patternValue.type = "range"
  THEN Gte(featureValue, patternValue.min) /\ featureValue # NaN /\ featureValue < patternValue.max
  ELSE featureValue = patternValue.value

\* FeatureMatches without the branch for boolean pattern values
FeatureMatches_rangesOnly(featureValue, patternValue) ==
  /\ patternValue.type = "range"
  /\ Gte(featureValue, patternValue.min) /\ Lte(featureValue, patternValue.max)

\* one feature of a pattern against the observed value
FeatureMatches(featureValue, patternValue) ==
  IF patternValue.type = "range"
  THEN Gte(featureValue, patternValue.min) /\ Lte(featureValue, patternValue.max)
  ELSE featureValue = patternValue.value

RECURSIVE CheckFeatures(_, _, _, _)
\* Object.keys(pattern).forEach over the keys not yet visited
CheckFeatures(feats, pattern, todo, acc) ==
  IF todo = {} THEN acc
  ELSE LET feature == CHOOSE f \in todo : TRUE
           seen == feature \in DOMAIN feats          \* features[feature] !== undefined
           hit == seen /\ FeatureMatches(feats[feature], pattern[feature])
       IN CheckFeatures(feats, pattern, todo \ {feature},
                        [score |-> acc.score + (IF hit THEN 1 ELSE 0),
                         checks |-> acc.checks + (IF seen THEN 1 ELSE 0)])

checkFeatureMatch(feats, pattern) ==
  CheckFeatures(feats, pattern, DOMAIN pattern, [score |-> 0, checks |-> 0])

\* MissingRequiredHand with && in place of ||
MissingRequiredHand_both(pattern, feats) ==
  pattern.requiresBothHands /\ (feats.leftHand = Null /\ feats.rightHand = Null)

\* the requiresBothHands test of the scoring loop
MissingRequiredHand(pattern, feats) ==
  pattern.requiresBothHands /\ (feats.leftHand = Null \/ feats.rightHand = Null)

\* one group (bothHands, leftHand or rightHand) of a pattern
GroupMatch(feats, pattern, group) ==
  IF pattern[group] # Null /\ feats[group] # Null
  THEN checkFeatureMatch(feats[group], pattern[group])
  ELSE [score |-> 0, checks |-> 0]

\* Normalize that takes a template without any check for matched in full
Normalize_vacuous(score, totalChecks) ==
  IF totalChecks > 0 THEN (score * ScoreUnit) \div totalChecks ELSE ScoreUnit

\* score / totalChecks as a multiple of 1/ScoreUnit
Normalize(score, totalChecks) ==
  IF totalChecks > 0 THEN (score * ScoreUnit) \div totalChecks ELSE 0

\* body of the scoring loop for one sign
SignScore(sign, feats) ==
  LET pattern == bothHandsSignPatterns[sign]
      both == GroupMatch(feats, pattern, "bothHands")
      left == GroupMatch(feats, pattern, "leftHand")
      right == GroupMatch(feats, pattern, "rightHand")
  IN IF MissingRequiredHand(pattern, feats) THEN 0
     ELSE Normalize(both.score + left.score + right.score,
                    both.checks + left.checks + right.checks)

MatchScores(feats) == [sign \in Signs |-> SignScore(sign, feats)]

RECURSIVE FindBest(_, _, _)
\* the search for the best match, from the i-th key on
FindBest(scores, i, acc) ==
  IF i > Len(SignOrder) THEN acc
  ELSE LET sign == SignOrder[i]
       IN FindBest(scores, i + 1,
                   IF scores[sign] > acc.highestScore
                   THEN [bestMatch |-> sign, highestScore |-> scores[sign]]
                   ELSE acc)

\* BestOf that lets a later sign with an equal score replace the earlier one
BestOf_last(scores) ==
  LET top == CHOOSE t \in {scores[x] : x \in Signs} : \A x \in Signs : scores[x] <= t
      last == CHOOSE i \in 1..Len(SignOrder) :
                /\ scores[SignOrder[i]] = top
                /\ \A j \in (i + 1)..Len(SignOrder) : scores[SignOrder[j]] # top
  IN IF top > 0 THEN [bestMatch |-> SignOrder[last], highestScore |-> top]
     ELSE [bestMatch |-> NullSign, highestScore |-> 0]

\* the best match of the scores, searched in the order of the keys
BestOf(scores) == FindBest(scores, 1, [bestMatch |-> NullSign, highestScore |-> 0])

---------------------------------------------------------------------------
(* signRecognitionService: smoothing over the recent detections *)

\* ShouldPush with the threshold 0.5, reached or exceeded
ShouldPush_half(best, score) == best # NullSign /\ score >= Tenths(5)

\* the test that guards the push
ShouldPush(best, score) == best # NullSign /\ score > Tenths(7)

\* PushDetection with >= in place of >
PushDetection_early(recent, sign) ==
  LET pushed == Append(recent, sign)
  IN IF Len(pushed) >= MAX_RECENT_DETECTIONS THEN Tail(pushed) ELSE pushed

\* recentDetections.push(bestMatch), then shift() when the list got too long
PushDetection(recent, sign) ==
  LET pushed == Append(recent, sign)
  IN IF Len(pushed) > MAX_RECENT_DETECTIONS THEN Tail(pushed) ELSE pushed

RECURSIVE CountKeys(_, _, _)
\* Object.keys(counts): the detections in the order of their first occurrence
CountKeys(recent, i, keys) ==
  IF i > Len(recent) THEN keys
  ELSE CountKeys(recent, i + 1,
                 IF \E j \in 1..Len(keys) : keys[j] = recent[i]
                 THEN keys ELSE Append(keys, recent[i]))

RECURSIVE CountIn(_, _, _)
\* counts[detection] after the counting loop has visited the first i entries
CountIn(recent, detection, i) ==
  IF i = 0 THEN 0
  ELSE CountIn(recent, detection, i - 1) + (IF recent[i] = detection THEN 1 ELSE 0)

RECURSIVE FindMostCommon(_, _, _, _)
FindMostCommon(recent, keys, i, acc) ==
  IF i > Len(keys) THEN acc
  ELSE LET count == CountIn(recent, keys[i], Len(recent))
       IN FindMostCommon(recent, keys, i + 1,
                         IF count > acc.highestCount
                         THEN [mostCommon |-> keys[i], highestCount |-> count]
                         ELSE acc)

\* MostCommonOf that names the label pushed last, with the count of the most frequent one
MostCommonOf_current(recent) ==
  [mostCommon |-> recent[Len(recent)],
   highestCount |-> FindMostCommon(recent, CountKeys(recent, 1, <<>>), 1,
                                   [mostCommon |-> NullSign, highestCount |-> 0]).highestCount]

\* the search for the most frequent of the recent detections
MostCommonOf(recent) ==
  FindMostCommon(recent, CountKeys(recent, 1, <<>>), 1,
                 [mostCommon |-> NullSign, highestCount |-> 0])

\* Confidence with the consistency taken out of 4 detections
Confidence_perFour(score, highestCount) ==
  (score + (highestCount * ScoreUnit) \div (MAX_RECENT_DETECTIONS - 1)) \div 2

\* (highestScore + highestCount / MAX_RECENT_DETECTIONS) / 2
Confidence(score, highestCount) ==
  (score + (highestCount * ScoreUnit) \div MAX_RECENT_DETECTIONS) \div 2

\* IsRepeat with >= in place of >
IsRepeat_atLeast(mostCommon, lastSent, confidence) ==
  mostCommon = lastSent /\ confidence >= Tenths(8)

\* the repeat test: return null without sending
IsRepeat(mostCommon, lastSent, confidence) ==
  mostCommon = lastSent /\ confidence > Tenths(8)

\* ShouldSend with >= in place of >
ShouldSend_atLeast(confidence) == confidence >= Tenths(7)

\* ShouldSend with the threshold 0.6
ShouldSend_sixTenths(confidence) == confidence > Tenths(6)

\* ShouldSend with the threshold 0.9
ShouldSend_nineTenths(confidence) == confidence > Tenths(9)

\* the test that guards the returned event
ShouldSend(confidence) == confidence > Tenths(7)

\* gestureData.hands.map(h => h.handedness)
HandsUsed(hands) == [i \in 1..Len(hands) |-> hands[i].handedness]

\* what one call leaves behind: the module variables, its return value, the return taken
Outcome(recent, lastSent, res, at) ==
  [recentDetections |-> recent, lastSentDetection |-> lastSent, result |-> res, pc |-> at]

\* NoHandsReturn that also forgets the recent detections
NoHandsReturn_clear(recent, lastSent) == Outcome(<<>>, lastSent, Null, "noHands")

\* the first return: no data about hands
NoHandsReturn(recent, lastSent) == Outcome(recent, lastSent, Null, "noHands")

\* CaughtReturn that throws the error again after logging it
CaughtReturn_rethrow(recent, lastSent) == Outcome(recent, lastSent, Null, "thrown")

\* CaughtReturn that also forgets the recent detections
CaughtReturn_forget(recent, lastSent) == Outcome(<<>>, lastSent, Null, "caught")

\* the catch block: log and return null
CaughtReturn(recent, lastSent) == Outcome(recent, lastSent, Null, "caught")

\* !gestureData || !gestureData.hands || gestureData.hands.length === 0
NoHands(gd) == gd = Null \/ "hands" \notin DOMAIN gd \/ Len(gd.hands) = 0

\* Smooth that records the label as sent also when the confidence is too low to send it
Smooth_markUnsure(recent, lastSent, best, score, hands) ==
  LET pushed == PushDetection(recent, best)
      common == MostCommonOf(pushed)
      confidence == Confidence(score, common.highestCount)
  IN IF ~ShouldPush(best, score)
     THEN Outcome(recent, lastSent, Null, "noMatch")
     ELSE IF IsRepeat(common.mostCommon, lastSent, confidence)
     THEN Outcome(pushed, lastSent, Null, "repeat")
     ELSE IF ShouldSend(confidence)
     THEN Outcome(pushed, common.mostCommon,
                  [text |-> common.mostCommon, confidence |-> confidence,
                   handsUsed |-> HandsUsed(hands)],
                  "event")
     ELSE Outcome(pushed, common.mostCommon, Null, "unsure")

\* the part of recognizeSign after the search for the best match
Smooth(recent, lastSent, best, score, hands) ==
  LET pushed == PushDetection(recent, best)
      common == MostCommonOf(pushed)
      confidence == Confidence(score, common.highestCount)
  IN IF ~ShouldPush(best, score)
     THEN Outcome(recent, lastSent, Null, "noMatch")
     ELSE IF IsRepeat(common.mostCommon, lastSent, confidence)
     THEN Outcome(pushed, lastSent, Null, "repeat")
     ELSE IF ShouldSend(confidence)
     THEN Outcome(pushed, common.mostCommon,
                  [text |-> common.mostCommon, confidence |-> confidence,
                   handsUsed |-> HandsUsed(hands)],
                  "event")
     ELSE Outcome(pushed, lastSent, Null, "unsure")

\* recognizeSign on the module variables recent and lastSent, where best and score are
\* the best match that the scoring of gd finds
recognizeSign(recent, lastSent, gd, best, score) ==
  IF NoHands(gd) THEN NoHandsReturn(recent, lastSent)
  ELSE IF ExtractionThrows(gd.hands) THEN CaughtReturn(recent, lastSent)
  ELSE Smooth(recent, lastSent, best, score, gd.hands)

\* the module variables when the module is loaded
Loaded == [recentDetections |-> <<>>, lastSentDetection |-> NullSign]

\* resetRecognition without the assignment to lastSentDetection
resetRecognition_keepLast(recent, lastSent) ==
  [recentDetections |-> <<>>, lastSentDetection |-> lastSent]

\* the module variables after resetRecognition
resetRecognition(recent, lastSent) == [recentDetections |-> <<>>, lastSentDetection |-> NullSign]

---------------------------------------------------------------------------
(* The frames offered to recognizeSign *)

Pt(x, y, z) == [x |-> x, y |-> y, z |-> z]
Shift(p, dx, dy, dz) == Pt(p.x + dx, p.y + dy, p.z + dz)

\* from a joint: the vector to the previous joint and the vector to the fingertip,
\* enclosing the angle a
Bend(a) == CASE a = 180 -> <<Pt(1, 0, 0), Pt(-1, 0, 0)>>
             [] a = 150 -> <<Pt(1, 1, 0), Pt(-1, -2, -1)>>
             [] a = 90  -> <<Pt(1, 0, 0), Pt(0, 1, 0)>>
             [] a = 45  -> <<Pt(1, 0, 0), Pt(1, 1, 0)>>

\* the last three landmarks of a finger whose tip is at tip and whose last joint bends by a
Finger(tip, a) ==
  LET joint == Shift(tip, -Bend(a)[2].x, -Bend(a)[2].y, -Bend(a)[2].z)
  IN <<Shift(joint, Bend(a)[1].x, Bend(a)[1].y, Bend(a)[1].z), joint, tip>>

\* a hand whose fingertips and wrist lie on one line through the palm centre
Hand(side, palm, tipOff, thumbToIndex, thumbAngle, indexAngle, pinkyAngle) ==
  LET indexTip == Shift(palm, tipOff, 0, 0)
      thumb == Finger(Shift(indexTip, thumbToIndex, 0, 0), thumbAngle)
      index == Finger(indexTip, indexAngle)
      middle == Finger(Shift(palm, -4, 0, 0), 180)
      ring == Finger(Shift(palm, -8, 0, 0), 180)
      pinky == Finger(Shift(palm, -12, 0, 0), pinkyAngle)
  IN [ handedness |-> side,
       landmarks |-> <<Shift(palm, -30, 0, 0)>> \o <<palm>> \o thumb \o <<palm>> \o index
                     \o <<palm>> \o middle \o <<palm>> \o ring \o <<palm>> \o pinky ]

PalmRight == Pt(50, 50, 0)
PalmLeft == Pt(10, 50, 0)

RightHello == Hand("Right", PalmRight, 20, 20, 90, 180, 90)   \* HELLO 1
RightYes   == Hand("Right", PalmRight, 20, 45, 45, 150, 90)   \* YES 1, HELLO 1/2
RightHalf  == Hand("Right", PalmRight, 20, 5, 90, 180, 90)    \* HELLO 1/2
RightNone  == Hand("Right", PalmRight, 20, 50, 90, 90, 90)    \* nothing matches
RightOpen  == Hand("Right", PalmRight, 20, 32, 90, 90, 90)    \* LOVE 1/2; fits THANK YOU
LeftOpen   == Hand("Left", PalmLeft, -20, 30, 90, 90, 90)     \* fits THANK YOU
LeftTight  == Hand("Left", PalmLeft, -20, 10, 90, 90, 90)     \* misses THANK YOU
\* every landmark at one point: the distances are 0 and the angles NaN
RightFlat  == [handedness |-> "Right", landmarks |-> [i \in 1..21 |-> PalmRight]]
\* a hand with 20 landmarks
RightShort == [handedness |-> "Right", landmarks |-> SubSeq(RightHello.landmarks, 1, 20)]

Frames ==
  { Null,                                  \* no gestureData
    [timestamp |-> 0],                     \* no hands property
    [hands |-> <<>>],
    [hands |-> <<RightHello>>],
    [hands |-> <<RightYes>>],
    [hands |-> <<RightHalf>>],
    [hands |-> <<RightNone>>],
    [hands |-> <<RightOpen>>],
    [hands |-> <<RightFlat>>],
    [hands |-> <<RightShort>>],
    [hands |-> <<LeftOpen>>],
    [hands |-> <<LeftTight>>],
    [hands |-> <<LeftOpen, RightOpen>>],   \* THANK YOU 1
    [hands |-> <<LeftTight, RightOpen>>],  \* THANK YOU 3/4
    [hands |-> <<LeftOpen, RightHello>>] } \* HELLO 1 and THANK YOU 1

\* extractBothHandsFeatures(gestureData.hands) of every frame on which it returns
Extracted ==
  [gd \in {f \in Frames : ~NoHands(f) /\ ~ExtractionThrows(f.hands)} |->
     extractBothHandsFeatures(gd.hands)]

\* the scores of every feature vector that the frames give
Scores == [feats \in {Extracted[gd] : gd \in DOMAIN Extracted} |-> MatchScores(feats)]

---------------------------------------------------------------------------
(* History variables *)

MaxRun == 7

Min(a, b) == IF a < b THEN a ELSE b

NoRun == [open |-> FALSE, label |-> NullSign, len |-> 0, events |-> 0]
NewRun == [open |-> TRUE, label |-> NullSign, len |-> 0, events |-> 0]

\* the run goes on while every frame since the reset has the same best match at score 1.0
RunAfter(r, out, best, score) ==
  IF /\ r.open
     /\ out.pc \notin {"noHands", "caught"}
     /\ best # NullSign
     /\ score = ScoreUnit
     /\ (r.len = 0 \/ r.label = best)
  THEN [ open |-> TRUE, label |-> best,
         len |-> Min(r.len + 1, MaxRun),
         events |-> Min(r.events + (IF out.result # Null THEN 1 ELSE 0), MaxRun) ]
  ELSE NoRun

NoStreak == [label |-> NullSign, len |-> 0, closed |-> 0]

\* the streak after a call: it begins with a frame whose best match, above 0.7, is not the
\* label sent last, goes on while the best match stays, and is closed by an event with that
\* label (closed is then the number of the frame that brought the event)
StreakAfter(st, lastSent, out, best) ==
  LET waited == IF st.len > 0 /\ st.label = best THEN st.len
                ELSE IF lastSent # best THEN 0 ELSE -1
  IN IF out.pc \notin {"repeat", "event", "unsure"} \/ waited = -1 THEN NoStreak
     ELSE IF out.result # Null /\ out.result.text = best
     THEN [label |-> best, len |-> 0, closed |-> waited + 1]
     ELSE [label |-> best, len |-> Min(waited + 1, MAX_RECENT_DETECTIONS), closed |-> 0]

---------------------------------------------------------------------------
(* The parts of the state a specification does not use *)

Sessions == {1, 2}

\* a stabilizer as the module is loaded, before any call
NewStabilizer ==
  [recentDetections |-> Loaded.recentDetections,
   lastSentDetection |-> Loaded.lastSentDetection, result |-> Null]

\* the same, with the note that no frame has been kept from it
Unspoiled ==
  [recentDetections |-> Loaded.recentDetections,
   lastSentDetection |-> Loaded.lastSentDetection, result |-> Null, skipped |-> FALSE]

NoSessions == session = 0 /\ alone = [s \in Sessions |-> NewStabilizer] /\ calls = 0
NoHandUtils == previous = Null /\ points = <<>> /\ measured = Null
NoServer == messages = <<>> /\ request = Null /\ response = Null
NoAsync ==
  /\ invocations = <<>>
  /\ serial = Loaded
  /\ received = Null

DETECTION_COOLDOWN == 2000

\* Date.now() when the component is mounted, in milliseconds
StartTime == 10000

\* VideoFeed after its first render: useState(0), useState(true), useState([])
NoFeed ==
  /\ clock = StartTime
  /\ lastDetectionTime = 0
  /\ isCameraOn = TRUE
  /\ detectedHands = 0
  /\ forwarded = Null

\* a chat message; the assistant's messages have the userId ai-assistant
ChatMessage(content, type, userId) == [content |-> content, type |-> type, userId |-> userId]

\* App after its first render: the welcome message, nothing in progress
NoChat ==
  /\ chat = <<ChatMessage("welcome", "text", "ai-assistant")>>
  /\ isProcessing = FALSE
  /\ avatarAnimation = Null
  /\ currentSign = Null
  /\ timers = <<>>
  /\ aiCalls = <<>>
  /\ completed = Null

NoAiChat == replies = 0 /\ awaiting = Null /\ settled = Null

---------------------------------------------------------------------------
(* The recognition service *)

Init ==
  /\ recentDetections = Loaded.recentDetections
  /\ lastSentDetection = Loaded.lastSentDetection
  /\ gestureData = Null
  /\ features = Null
  /\ matchScores = Null
  /\ bestMatch = NullSign
  /\ highestScore = 0
  /\ result = Null
  /\ pc = "loaded"
  /\ before = Loaded
  /\ lastEvent = NullSign
  /\ run = NewRun
  /\ fresh = [recentDetections |-> Loaded.recentDetections,
              lastSentDetection |-> Loaded.lastSentDetection, result |-> Null,
              wiped |-> FALSE]
  /\ streak = NoStreak
  /\ clean = Unspoiled
  /\ NoSessions
  /\ NoHandUtils
  /\ NoServer
  /\ NoAsync
  /\ NoFeed
  /\ NoChat
  /\ NoAiChat

\* one call of recognizeSign on the module variables
Call(gd) ==
  /\ gestureData' = gd
  /\ features' = IF gd \in DOMAIN Extracted THEN Extracted[gd] ELSE Null
  /\ matchScores' = IF features' = Null THEN Null ELSE Scores[features']
  /\ bestMatch' = IF features' = Null THEN NullSign ELSE BestOf(matchScores').bestMatch
  /\ highestScore' = IF features' = Null THEN 0 ELSE BestOf(matchScores').highestScore
  /\ LET out == recognizeSign(recentDetections, lastSentDetection, gd,
                              bestMatch', highestScore')
         twin == recognizeSign(fresh.recentDetections, fresh.lastSentDetection, gd,
                               bestMatch', highestScore')
     IN /\ recentDetections' = out.recentDetections
        /\ lastSentDetection' = out.lastSentDetection
        /\ result' = out.result
        /\ pc' = out.pc
        /\ fresh' = [recentDetections |-> twin.recentDetections,
                     lastSentDetection |-> twin.lastSentDetection,
                     result |-> twin.result, wiped |-> fresh.wiped]
  /\ before' = [recentDetections |-> recentDetections,
                lastSentDetection |-> lastSentDetection]
  /\ lastEvent' = IF result' # Null THEN result'.text ELSE lastEvent
  /\ run' = RunAfter(run, [pc |-> pc', result |-> result'], bestMatch', highestScore')
  /\ streak' = StreakAfter(streak, lastSentDetection, [pc |-> pc', result |-> result'],
                           bestMatch')
  /\ clean' = IF ~NoHands(gd) /\ ExtractionThrows(gd.hands)
              THEN [clean EXCEPT !.skipped = TRUE]
              ELSE LET kept == recognizeSign(clean.recentDetections, clean.lastSentDetection,
                                             gd, bestMatch', highestScore')
                   IN [recentDetections |-> kept.recentDetections,
                       lastSentDetection |-> kept.lastSentDetection, result |-> kept.result,
                       skipped |-> clean.skipped]

RecognizeSign(gd) == Call(gd) /\ UNCHANGED <<sessionVars, handVars, serverVars, restVars>>

ResetRecognition ==
  LET cleared == resetRecognition(recentDetections, lastSentDetection)
  IN /\ recentDetections' = cleared.recentDetections
     /\ lastSentDetection' = cleared.lastSentDetection
     /\ gestureData' = Null
     /\ features' = Null
     /\ matchScores' = Null
     /\ bestMatch' = NullSign
     /\ highestScore' = 0
     /\ result' = Null
     /\ pc' = "reset"
     /\ before' = [recentDetections |-> recentDetections,
                   lastSentDetection |-> lastSentDetection]
     /\ lastEvent' = NullSign
     /\ run' = NewRun
     /\ fresh' = [recentDetections |-> Loaded.recentDetections,
                  lastSentDetection |-> Loaded.lastSentDetection, result |-> Null,
                  wiped |-> recentDetections # <<>> /\ lastSentDetection # NullSign]
     /\ streak' = NoStreak
     /\ clean' = Unspoiled
     /\ UNCHANGED <<sessionVars, handVars, serverVars, restVars>>

Next == (\E gd \in Frames : RecognizeSign(gd)) \/ ResetRecognition

Spec == Init /\ [][Next]_vars

---------------------------------------------------------------------------
(* Two sessions whose frames go through the one recognition service *)

MaxCalls == 6

SessionFrames == {[hands |-> <<>>], [hands |-> <<RightHello>>], [hands |-> <<RightYes>>]}

\* recognizeSign called with a frame of session s: the module has one recentDetections and
\* one lastSentDetection, whoever calls
SessionCall(s, gd) ==
  /\ calls < MaxCalls
  /\ Call(gd)
  /\ session' = s
  /\ calls' = calls + 1
  /\ LET solo == recognizeSign(alone[s].recentDetections, alone[s].lastSentDetection, gd,
                               bestMatch', highestScore')
     IN alone' = [alone EXCEPT ![s] = [recentDetections |-> solo.recentDetections,
                                       lastSentDetection |-> solo.lastSentDetection,
                                       result |-> solo.result]]
  /\ UNCHANGED <<handVars, serverVars, restVars>>

NextSessions == \E s \in Sessions, gd \in SessionFrames : SessionCall(s, gd)

SpecSessions == Init /\ [][NextSessions]_vars

---------------------------------------------------------------------------
(* Overlapping invocations of recognizeSign: callers that await it *)

MaxOverlap == 2

\* recognizeSign with an await between the counting and the test against lastSentDetection
SuspensionPoints_beforeSend == {"counted"}

\* the statements of recognizeSign at which it awaits: its body has no await
SuspensionPoints == {}

\* an invocation stands at its entry, after the scoring, after the counting, or at a return
Finished(inv) == inv.at \notin {"called", "scored", "counted"}

\* the invocation as it returns
Returned(inv, res, at) == [inv EXCEPT !.result = res, !.at = at]

\* what the body leaves behind when it stops: the invocation and the module variables
Stopped(inv, recent, lastSent) ==
  [inv |-> inv, recentDetections |-> recent, lastSentDetection |-> lastSent]

\* the statements from where the invocation stands to the next place it can stand at
Segment(inv, recent, lastSent) ==
  CASE inv.at = "called" ->
         IF NoHands(inv.gestureData) THEN Stopped(Returned(inv, Null, "noHands"), recent, lastSent)
         ELSE IF ExtractionThrows(inv.gestureData.hands)
         THEN Stopped(Returned(inv, Null, "caught"), recent, lastSent)
         ELSE Stopped([inv EXCEPT !.at = "scored"], recent, lastSent)
    [] inv.at = "scored" ->
         IF ~ShouldPush(inv.bestMatch, inv.highestScore)
         THEN Stopped(Returned(inv, Null, "noMatch"), recent, lastSent)
         ELSE LET pushed == PushDetection(recent, inv.bestMatch)
                  common == MostCommonOf(pushed)
              IN Stopped([inv EXCEPT !.at = "counted",
                                     !.mostCommon = common.mostCommon,
                                     !.confidence = Confidence(inv.highestScore,
                                                               common.highestCount)],
                         pushed, lastSent)
    [] inv.at = "counted" ->
         IF IsRepeat(inv.mostCommon, lastSent, inv.confidence)
         THEN Stopped(Returned(inv, Null, "repeat"), recent, lastSent)
         ELSE IF ShouldSend(inv.confidence)
         THEN Stopped(Returned(inv, [text |-> inv.mostCommon, confidence |-> inv.confidence,
                                     handsUsed |-> HandsUsed(inv.gestureData.hands)],
                               "event"),
                      recent, inv.mostCommon)
         ELSE Stopped(Returned(inv, Null, "unsure"), recent, lastSent)

RECURSIVE RunBody(_, _, _)
\* the body runs on until it returns or reaches a statement at which it awaits
RunBody(inv, recent, lastSent) ==
  LET after == Segment(inv, recent, lastSent)
  IN IF Finished(after.inv) \/ after.inv.at \in SuspensionPoints THEN after
     ELSE RunBody(after.inv, after.recentDetections, after.lastSentDetection)

\* a caller invokes recognizeSign(gd) and awaits it: the body runs at once, as far as it
\* goes without awaiting
Invoke(gd) ==
  /\ calls < MaxCalls
  /\ Len(invocations) < MaxOverlap
  /\ calls' = calls + 1
  /\ gestureData' = gd
  /\ features' = IF gd \in DOMAIN Extracted THEN Extracted[gd] ELSE Null
  /\ matchScores' = IF features' = Null THEN Null ELSE Scores[features']
  /\ bestMatch' = IF features' = Null THEN NullSign ELSE BestOf(matchScores').bestMatch
  /\ highestScore' = IF features' = Null THEN 0 ELSE BestOf(matchScores').highestScore
  /\ LET inOrder == recognizeSign(serial.recentDetections, serial.lastSentDetection, gd,
                                  bestMatch', highestScore')
         after == RunBody([gestureData |-> gd, at |-> "called", bestMatch |-> bestMatch',
                           highestScore |-> highestScore', mostCommon |-> NullSign,
                           confidence |-> 0, result |-> Null, expected |-> inOrder.result],
                          recentDetections, lastSentDetection)
     IN /\ invocations' = Append(invocations, after.inv)
        /\ recentDetections' = after.recentDetections
        /\ lastSentDetection' = after.lastSentDetection
        /\ serial' = [recentDetections |-> inOrder.recentDetections,
                      lastSentDetection |-> inOrder.lastSentDetection]
  /\ UNCHANGED <<result, pc, before, lastEvent, run, fresh, streak, clean, session, alone,
                 received>>
  /\ UNCHANGED <<handVars, serverVars, feedVars, chatVars, aiVars>>

\* invocations without the i-th
Without(invs, i) == SubSeq(invs, 1, i - 1) \o SubSeq(invs, i + 1, Len(invs))

\* a continuation runs: the caller of a finished invocation resumes with its result, or the
\* body of an invocation that awaits runs on
RunContinuation(i) ==
  /\ i \in 1..Len(invocations)
  /\ IF Finished(invocations[i])
     THEN /\ received' = [result |-> invocations[i].result,
                          expected |-> invocations[i].expected]
          /\ invocations' = Without(invocations, i)
          /\ UNCHANGED <<recentDetections, lastSentDetection>>
     ELSE LET after == RunBody(invocations[i], recentDetections, lastSentDetection)
          IN /\ invocations' = [invocations EXCEPT ![i] = after.inv]
             /\ recentDetections' = after.recentDetections
             /\ lastSentDetection' = after.lastSentDetection
             /\ UNCHANGED received
  /\ UNCHANGED <<gestureData, features, matchScores, bestMatch, highestScore, result, pc,
                 before, lastEvent, run, fresh, streak, clean, serial>>
  /\ UNCHANGED <<sessionVars, handVars, serverVars, feedVars, chatVars, aiVars>>

NextAsync ==
  \/ \E gd \in SessionFrames : Invoke(gd)
  \/ \E i \in 1..MaxOverlap : RunContinuation(i)

SpecAsync == Init /\ [][NextAsync]_vars

---------------------------------------------------------------------------
(* VideoFeed: the results of the hand tracker and the cooldown between detections *)

MaxHalfSeconds == 12

\* the onResults that initializeHands hands to the tracker, once (the effect has no
\* dependencies): the function of the first render, whose lastDetectionTime is useState's 0
RegisteredOnResults == [lastDetectionTime |-> 0]

\* results of the tracker: multiHandLandmarks and multiHandedness are there or not, and
\* hold so many hands
TrackerResults ==
  {[found |-> FALSE, hands |-> 0], [found |-> TRUE, hands |-> 0],
   [found |-> TRUE, hands |-> 1], [found |-> TRUE, hands |-> 2]}

\* the milliseconds between two results
Delays == {500, 1500, 2000}

\* the tracker calls its onResults, delay milliseconds after the call before
OnResults(results, delay) ==
  /\ clock + delay <= StartTime + 500 * MaxHalfSeconds
  /\ clock' = clock + delay
  /\ IF clock' - RegisteredOnResults.lastDetectionTime < DETECTION_COOLDOWN
     THEN UNCHANGED <<lastDetectionTime, detectedHands, forwarded>>
     ELSE IF ~isCameraOn                             \* !canvasRef.current
     THEN UNCHANGED <<lastDetectionTime, detectedHands, forwarded>>
     ELSE IF ~results.found
     THEN detectedHands' = 0 /\ UNCHANGED <<lastDetectionTime, forwarded>>
     ELSE /\ detectedHands' = results.hands
          /\ IF results.hands > 0
             THEN /\ lastDetectionTime' = clock'
                  /\ forwarded' = [at |-> clock',
                                   previous |-> IF forwarded = Null THEN -1 ELSE forwarded.at]
             ELSE UNCHANGED <<lastDetectionTime, forwarded>>
  /\ UNCHANGED isCameraOn
  /\ UNCHANGED <<recognitionVars, sessionVars, handVars, serverVars, asyncVars, chatVars,
                 aiVars>>

\* toggleCamera: with the camera off the canvas is not rendered
ToggleCamera ==
  /\ isCameraOn' = ~isCameraOn
  /\ UNCHANGED <<clock, lastDetectionTime, detectedHands, forwarded>>
  /\ UNCHANGED <<recognitionVars, sessionVars, handVars, serverVars, asyncVars, chatVars,
                 aiVars>>

NextFeed ==
  \/ \E results \in TrackerResults, delay \in Delays : OnResults(results, delay)
  \/ ToggleCamera

SpecFeed == Init /\ [][NextFeed]_vars

---------------------------------------------------------------------------
(* App: the chat, the requests to the AI and the isProcessing flag *)

MaxRequests == 3

\* the message of the catch block, whose content is the fixed apology
ErrorMessage == ChatMessage("apology", "text", "ai-assistant")

\* OnError that only logs the error
OnError_silent(msgs) == msgs

\* the catch block of getAIResponse: setMessages(prev => [...prev, errorMessage])
OnError(msgs) == Append(msgs, ErrorMessage)

\* what response.json() gives: a rejection when the body is no JSON, or the value parsed
\* (null, a reply with or without animationData, or an error object without content)
ResponseBodies ==
  { [json |-> FALSE, value |-> Null],
    [json |-> TRUE, value |-> Null],
    [json |-> TRUE, value |-> [content |-> "reply", animationData |-> Null]],
    [json |-> TRUE, value |-> [content |-> "reply", animationData |-> [type |-> "gesture"]]],
    [json |-> TRUE, value |-> [error |-> "server error"]] }

\* how the fetch settles: it rejects when the request cannot be made, and resolves with
\* whatever the server answers
FetchOutcomes ==
  {[settled |-> "rejected", body |-> Null]}
  \cup {[settled |-> "resolved", body |-> b] : b \in ResponseBodies}

\* aiResponse.content and aiResponse.animationData
ContentOf(value) == IF "content" \in DOMAIN value THEN value.content ELSE Undefined
AnimationOf(value) == IF "animationData" \in DOMAIN value THEN value.animationData ELSE Null

\* the messages of the current user in the chat
UserMessages(msgs) == Cardinality({k \in 1..Len(msgs) : msgs[k].userId = "user"})

\* getAIResponse(newMessage) up to its first await, newMessage being the last of msgs
BeginAIResponse(msgs) ==
  /\ isProcessing' = TRUE
  /\ aiCalls' = Append(aiCalls, [userAt |-> Len(msgs), at |-> "fetch", body |-> Null])

\* the call leaves through the finally block
EndAIResponse(i, outcome) ==
  /\ isProcessing' = FALSE
  /\ aiCalls' = Without(aiCalls, i)
  /\ completed' = [userAt |-> aiCalls[i].userAt, outcome |-> outcome,
                   appended |-> Len(chat') - Len(chat), replyAt |-> Len(chat')]

\* what the recognition has returned to handleSignDetected
SignResults == {Null, [text |-> "HELLO"], [text |-> "YES"]}

\* handleSignDetected after recognizeSign has returned res
SignDetected(res) ==
  /\ UserMessages(chat) + Len(timers) < MaxRequests
  /\ IF res # Null
     THEN currentSign' = res /\ timers' = Append(timers, res.text)
     ELSE UNCHANGED <<currentSign, timers>>
  /\ completed' = Null
  /\ UNCHANGED <<chat, isProcessing, avatarAnimation, aiCalls>>
  /\ UNCHANGED <<recognitionVars, sessionVars, handVars, serverVars, asyncVars, feedVars,
                 aiVars>>

\* the callback of setTimeout runs, one second after the sign
TimerFires ==
  /\ timers # <<>>
  /\ chat' = Append(chat, ChatMessage(Head(timers), "sign", "user"))
  /\ timers' = Tail(timers)
  /\ BeginAIResponse(chat')
  /\ completed' = Null
  /\ UNCHANGED <<avatarAnimation, currentSign>>
  /\ UNCHANGED <<recognitionVars, sessionVars, handVars, serverVars, asyncVars, feedVars,
                 aiVars>>

\* the texts submitted; the second one is blank
Texts == {"hi", " "}

\* handleSendTextMessage, called by the form of ChatInterface, whose input and button are
\* disabled while isProcessing
SendText(text) ==
  /\ ~isProcessing
  /\ UserMessages(chat) + Len(timers) < MaxRequests
  /\ IF text = " "                                   \* !text.trim()
     THEN UNCHANGED <<chat, isProcessing, aiCalls>>
     ELSE /\ chat' = Append(chat, ChatMessage(text, "text", "user"))
          /\ BeginAIResponse(chat')
  /\ completed' = Null
  /\ UNCHANGED <<avatarAnimation, currentSign, timers>>
  /\ UNCHANGED <<recognitionVars, sessionVars, handVars, serverVars, asyncVars, feedVars,
                 aiVars>>

\* the fetch of the i-th call settles
FetchSettles(i, outcome) ==
  /\ i \in 1..Len(aiCalls)
  /\ aiCalls[i].at = "fetch"
  /\ IF outcome.settled = "rejected"
     THEN /\ chat' = OnError(chat)
          /\ EndAIResponse(i, outcome)
     ELSE /\ aiCalls' = [aiCalls EXCEPT ![i] = [userAt |-> aiCalls[i].userAt, at |-> "json",
                                               body |-> outcome.body]]
          /\ completed' = Null
          /\ UNCHANGED <<chat, isProcessing>>
  /\ UNCHANGED <<avatarAnimation, currentSign, timers>>
  /\ UNCHANGED <<recognitionVars, sessionVars, handVars, serverVars, asyncVars, feedVars,
                 aiVars>>

\* response.json() of the i-th call settles, and the call runs to its end
JsonSettles(i) ==
  /\ i \in 1..Len(aiCalls)
  /\ aiCalls[i].at = "json"
  /\ LET body == aiCalls[i].body
     IN /\ IF ~body.json \/ body.value = Null        \* rejection, or aiResponse.content of null
           THEN chat' = OnError(chat) /\ UNCHANGED avatarAnimation
           ELSE /\ chat' = Append(chat, ChatMessage(ContentOf(body.value), "text",
                                                    "ai-assistant"))
                /\ avatarAnimation' = IF AnimationOf(body.value) # Null
                                      THEN AnimationOf(body.value) ELSE avatarAnimation
        /\ EndAIResponse(i, [settled |-> "resolved", body |-> body])
  /\ UNCHANGED <<currentSign, timers>>
  /\ UNCHANGED <<recognitionVars, sessionVars, handVars, serverVars, asyncVars, feedVars,
                 aiVars>>

NextChat ==
  \/ \E res \in SignResults : SignDetected(res)
  \/ TimerFires
  \/ \E text \in Texts : SendText(text)
  \/ \E i \in 1..MaxRequests, outcome \in FetchOutcomes : FetchSettles(i, outcome)
  \/ \E i \in 1..MaxRequests : JsonSettles(i)

SpecChat == Init /\ [][NextChat]_vars

---------------------------------------------------------------------------
(* extractBothHandsFeatures applied to hands at various heights *)

\* a hand of the given label whose landmark 9 is at height y
HandAt(side, y) == Hand(side, Pt(30, y, 0), 20, 30, 90, 90, 90)

LeftHeights == {50, 70}
RightHeights == {41, 45, 50, 59, 60, 61, 65, 70, 79, 80}

\* a hand with a label that is neither Left nor Right
Unlabelled == HandAt("Unknown", 50)

HandLists ==
  {<<>>, <<Unlabelled>>}
  \cup {<<HandAt("Left", l)>> : l \in LeftHeights}
  \cup {<<HandAt("Right", r)>> : r \in RightHeights}
  \cup {<<HandAt("Left", l), Unlabelled>> : l \in LeftHeights}
  \cup {<<Unlabelled, HandAt("Right", r)>> : r \in RightHeights}
  \cup {<<HandAt("Left", l), HandAt("Right", r)>> : l \in LeftHeights, r \in RightHeights}
  \cup {<<HandAt("Right", r), HandAt("Left", l)>> : l \in LeftHeights, r \in RightHeights}
  \cup {<<HandAt("Left", l), Unlabelled, HandAt("Right", r)>> :
          l \in LeftHeights, r \in RightHeights}
  \cup {<<HandAt("Left", 50), HandAt("Left", 70), HandAt("Right", r)>> : r \in RightHeights}

\* extractBothHandsFeatures of every list of hands
HandFeatures == [handsData \in HandLists |-> extractBothHandsFeatures(handsData)]

\* a call of extractBothHandsFeatures; the call before it is remembered
ExtractBothHandsFeatures(handsData) ==
  /\ gestureData' = [hands |-> handsData]
  /\ features' = HandFeatures[handsData]
  /\ pc' = "extracted"
  /\ previous' = IF pc = "extracted"
                 THEN [hands |-> gestureData.hands, features |-> features]
                 ELSE Null
  /\ UNCHANGED <<recentDetections, lastSentDetection, matchScores, bestMatch, highestScore,
                 result, before, lastEvent, run, fresh, streak, clean>>
  /\ UNCHANGED <<points, measured, sessionVars, serverVars, restVars>>

NextFeatures == \E handsData \in HandLists : ExtractBothHandsFeatures(handsData)

SpecFeatures == Init /\ [][NextFeatures]_vars

---------------------------------------------------------------------------
(* calculateDistance and calculateAngle applied to landmarks *)

\* a landmark without z
Pt2(x, y) == [x |-> x, y |-> y]

\* the landmarks given to calculateDistance
Landmarks ==
  {Pt(x, y, z) : x \in {0, 3}, y \in {0, 4}, z \in {0, 12}}
  \cup {Pt2(x, y) : x \in {0, 3}, y \in {0, 4}}

\* the landmarks given to calculateAngle
Corners ==
  {Pt(x, y, z) : x \in {0, 1}, y \in {0, 1}, z \in {0, 1}}
  \cup {Pt2(x, y) : x \in {0, 1}, y \in {0, 1}}

SquaredDistance(a, b) ==
  (a.x - b.x) * (a.x - b.x) + (a.y - b.y) * (a.y - b.y) + (Z(a) - Z(b)) * (Z(a) - Z(b))

\* the pairs whose distance is a whole number of hundredths
DistanceInputs ==
  {pair \in Landmarks \X Landmarks :
     \E r \in 0..13 : r * r = SquaredDistance(pair[1], pair[2])}

\* the triples whose angle at the middle landmark is NaN or one of the degrees of Cos2x4
AngleInputs ==
  {t \in Corners \X Corners \X Corners :
     LET dot == (t[1].x - t[2].x) * (t[3].x - t[2].x) + (t[1].y - t[2].y) * (t[3].y - t[2].y)
                + (Z(t[1]) - Z(t[2])) * (Z(t[3]) - Z(t[2]))
         mm == SquaredDistance(t[1], t[2]) * SquaredDistance(t[3], t[2])
     IN \E a \in {0, 30, 45, 60, 90, 120, 135, 150, 180} : Cos2x4(a) * mm = 4 * dot * dot}

\* calculateDistance on two landmarks, in both orders
CalculateDistance(a, b) ==
  /\ points' = <<a, b>>
  /\ measured' = [forward |-> calculateDistance(a, b), backward |-> calculateDistance(b, a)]
  /\ pc' = "distance"
  /\ UNCHANGED <<recentDetections, lastSentDetection, gestureData, features, matchScores,
                 bestMatch, highestScore, result, before, lastEvent, run, fresh, streak, clean>>
  /\ UNCHANGED <<previous, sessionVars, serverVars, restVars>>

\* calculateAngle on three landmarks, and with the outer two swapped
CalculateAngle(a, b, c) ==
  /\ points' = <<a, b, c>>
  /\ measured' = [forward |-> calculateAngle(a, b, c), backward |-> calculateAngle(c, b, a)]
  /\ pc' = "angle"
  /\ UNCHANGED <<recentDetections, lastSentDetection, gestureData, features, matchScores,
                 bestMatch, highestScore, result, before, lastEvent, run, fresh, streak, clean>>
  /\ UNCHANGED <<previous, sessionVars, serverVars, restVars>>

NextGeometry ==
  \/ \E pair \in DistanceInputs : CalculateDistance(pair[1], pair[2])
  \/ \E t \in AngleInputs : CalculateAngle(t[1], t[2], t[3])

SpecGeometry == Init /\ [][NextGeometry]_vars

---------------------------------------------------------------------------
(* The message routes of the server: GET and POST /api/messages *)

\* class Message: its static members, and the methods of its instances
MessageStatics == {"validate"}
MessageMethods == {}

\* new Message(id, content, type, userId, username, timestamp)
Message(id, content, type, userId, username, timestamp) ==
  [id |-> id, content |-> content, type |-> type, userId |-> userId,
   username |-> username, timestamp |-> timestamp]

\* res.status(status).json(body)
Response(status, body) == [status |-> status, body |-> body]

\* the state and the response after getMessages
getMessages(store) ==
  IF "find" \in MessageStatics
  THEN Response(200, store)
  ELSE Response(500, [error |-> "getMessages", details |-> "Message.find is not a function"])

\* the state and the response after createMessage; the constructor gets the whole object
\* as its id and the time of the call as its timestamp
createMessage(store, body, now) ==
  LET newMessage ==
        Message([content |-> body.content, type |-> body.type, userId |-> body.userId,
                 username |-> body.username, timestamp |-> now],
                Undefined, Undefined, Undefined, Undefined, now)
  IN IF "save" \in MessageMethods
     THEN [messages |-> Append(store, newMessage), response |-> Response(201, newMessage)]
     ELSE [messages |-> store,
           response |-> Response(500, [error |-> "createMessage",
                                       details |-> "newMessage.save is not a function"])]

Times == {1, 2}

\* req.body after destructuring: a field that was not sent is undefined
Bodies ==
  [content : {"hello", "HELLO", "", Undefined},
   type : {"text", "sign", Undefined},
   userId : {"u1", "u2", Undefined},
   username : {"Ann", "Bob", Undefined}]

PostMessage(body, now) ==
  /\ request' = [method |-> "POST", path |-> "/api/messages", body |-> body]
  /\ LET after == createMessage(messages, body, now)
     IN messages' = after.messages /\ response' = after.response
  /\ UNCHANGED <<recognitionVars, sessionVars, handVars, restVars>>

GetMessages ==
  /\ request' = [method |-> "GET", path |-> "/api/messages"]
  /\ response' = getMessages(messages)
  /\ UNCHANGED messages
  /\ UNCHANGED <<recognitionVars, sessionVars, handVars, restVars>>

NextServer ==
  \/ \E body \in Bodies, now \in Times : PostMessage(body, now)
  \/ GetMessages

SpecServer == Init /\ [][NextServer]_vars

---------------------------------------------------------------------------
(* The AI route of the server: POST /api/messages/ai-chat *)

\* the values of req.body.message: not sent, a string, or an object with a content
NoMessage == [is |-> "undefined"]
TextValue(s) == [is |-> "string", value |-> s]
ObjectValue(content) == [is |-> "object", content |-> content]

\* req.body after destructuring
AiBodies ==
  [message : {NoMessage}
             \cup {TextValue(s) : s \in {"hi", ""}}
             \cup {ObjectValue(c) : c \in {"HELLO", "No", "THANK_YOU", "hi", "", Undefined}},
   type : {"sign", "text", Undefined}]

\* message.content: a string has no content property
MessageContent(message) == IF message.is = "object" THEN message.content ELSE Undefined

\* the truth value of a string or undefined
Truthy(s) == s \notin {Undefined, ""}

\* String.prototype.toLowerCase on the sign names offered
ToLowerCase(s) ==
  CASE s = "HELLO" -> "hello"
    [] s = "No" -> "no"
    [] s = "THANK_YOU" -> "thank_you"
    [] OTHER -> s

\* the dictionary of generateSignResponse; its Russian keys and replies are transliterated
signResponses ==
  [lowerSign \in {"privet", "spasibo", "poka", "da", "net", "pomosch", "horosho", "ploho",
                  "hello", "no", "please"} |->
     CASE lowerSign = "privet" -> "Privet! Rad videt vas!"
       [] lowerSign = "spasibo" -> "Pozhaluysta! Vsegda gotov pomoch!"
       [] lowerSign = "poka" -> "Do svidaniya! Udachnogo dnya!"
       [] lowerSign = "da" -> "Otlichno! Prodolzhaem obschenie!"
       [] lowerSign = "net" -> "Ponyatno, mozhet byt v drugoy raz!"
       [] lowerSign = "pomosch" -> "Konechno! Ya zdes, chtoby pomoch vam s zhestovym yazykom!"
       [] lowerSign = "horosho" -> "Zamechatelno! Ya rad, chto vse horosho!"
       [] lowerSign = "ploho" -> "Sozhaleyu, chto dela idut ne ochen. Mogu li ya chem-to pomoch?"
       [] lowerSign = "hello" -> "Hello! Nice to see you!"
       [] lowerSign = "no" -> "I see. Maybe another time!"
       [] lowerSign = "please" -> "You're welcome! How else can I help?"]

\* undefined.toLowerCase() throws, and the catch block answers
generateSignResponse(signContent) ==
  IF signContent = Undefined
  THEN "Ya poluchil vash zhest \"" \o signContent \o "\", no voznikla nebolshaya problema."
  ELSE LET lowerSign == ToLowerCase(signContent)
       IN IF lowerSign \in DOMAIN signResponses
          THEN signResponses[lowerSign]
          ELSE "Ya raspoznal zhest \"" \o signContent \o "\". Eto interesno!"

\* the animation of a reply: null for an empty text; the duration, the keyframes and the
\* emotion of the object are left out
generateResponseAnimation(responseText) ==
  IF ~Truthy(responseText) THEN Null ELSE [type |-> "gesture"]

\* how openai.chat.completions.create settles: a completion whose first choice has the
\* content (undefined when there is no first choice or no content), a completion without
\* choices, or an error with or without a code and a status
OpenAICodes ==
  {"invalid_api_key", "rate_limit_exceeded", "context_length_exceeded", "insufficient_quota"}
OpenAIStatuses == {401, 429}
OpenAIErrors ==
  {[message |-> "fetch failed"]}
  \cup {[message |-> "api error", code |-> c] : c \in OpenAICodes}
  \cup {[message |-> "api error", status |-> st] : st \in OpenAIStatuses}
  \cup {[message |-> "api error", code |-> c, status |-> st] :
          c \in OpenAICodes, st \in OpenAIStatuses}
OpenAIOutcomes ==
  {[kind |-> "completion", content |-> c] : c \in {"Hello! How can I help?", "", Undefined}}
  \cup {[kind |-> "no choices"]}
  \cup {[kind |-> "rejected", error |-> e] : e \in OpenAIErrors}

\* the error the inner catch block receives, Null when the try block completes
openaiError(outcome) ==
  CASE outcome.kind = "rejected" -> outcome.error
    [] outcome.kind = "no choices" ->
         [message |-> "Cannot read properties of undefined (reading '0')"]
    [] outcome.kind = "completion" ->
         IF Truthy(outcome.content) THEN Null ELSE [message |-> "Empty response from OpenAI"]

\* the same choice with the status looked at before the code
FallbackContent_statusFirst(error) ==
  IF "status" \in DOMAIN error /\ error.status = 429
  THEN "Slishkom mnogo zaprosov. Podozhdite nemnogo."
  ELSE IF "code" \in DOMAIN error /\ error.code = "invalid_api_key"
  THEN "Oshibka konfiguratsii API. Obratites k administratoru."
  ELSE IF "code" \in DOMAIN error /\ error.code = "rate_limit_exceeded"
  THEN "Prevyshen limit zaprosov. Poprobuyte pozzhe."
  ELSE IF "code" \in DOMAIN error /\ error.code = "context_length_exceeded"
  THEN "Soobschenie slishkom dlinnoe. Pozhaluysta, sokratite ego."
  ELSE "Vremennaya oshibka servisa. Poprobuyte esche raz."

\* the reply the inner catch block chooses
FallbackContent(error) ==
  IF "code" \in DOMAIN error /\ error.code = "invalid_api_key"
  THEN "Oshibka konfiguratsii API. Obratites k administratoru."
  ELSE IF "code" \in DOMAIN error /\ error.code = "rate_limit_exceeded"
  THEN "Prevyshen limit zaprosov. Poprobuyte pozzhe."
  ELSE IF "code" \in DOMAIN error /\ error.code = "context_length_exceeded"
  THEN "Soobschenie slishkom dlinnoe. Pozhaluysta, sokratite ego."
  ELSE IF "status" \in DOMAIN error /\ error.status = 429
  THEN "Slishkom mnogo zaprosov. Podozhdite nemnogo."
  ELSE "Vremennaya oshibka servisa. Poprobuyte esche raz."

\* the object aiChat sends; res.json leaves out the fields that are undefined, so
\* errorDetails carries the code, the message and the status the error has
AiResponse(content, type, errorDetails) ==
  IF errorDetails = Null
  THEN [content |-> content, type |-> type, userId |-> "ai-assistant",
        animationData |-> generateResponseAnimation(content)]
  ELSE [content |-> content, type |-> type, userId |-> "ai-assistant",
        animationData |-> generateResponseAnimation(content),
        errorDetails |-> errorDetails]

\* aiChat up to its response or to the await of the OpenAI call; reading message.content
\* of a message that was not sent throws, and the outer catch block answers 500
AiChat(body) ==
  /\ awaiting = Null
  /\ request' = [method |-> "POST", path |-> "/api/messages/ai-chat", body |-> body]
  /\ settled' = Null
  /\ IF body.message = NoMessage
     THEN /\ response' = Response(500, [error |-> "Izvinite, proizoshla oshibka"])
          /\ replies' = 1
          /\ awaiting' = Null
     ELSE IF body.type = "sign"
     THEN /\ response' = Response(200, AiResponse(generateSignResponse(MessageContent(body.message)),
                                                  "sign", Null))
          /\ replies' = 1
          /\ awaiting' = Null
     ELSE /\ response' = Null
          /\ replies' = 0
          /\ awaiting' = [userMessage |-> IF Truthy(MessageContent(body.message))
                                          THEN TextValue(MessageContent(body.message))
                                          ELSE body.message]
  /\ UNCHANGED <<recognitionVars, sessionVars, handVars, messages, asyncVars, feedVars, chatVars>>

\* aiChat from the settling of the OpenAI call to its response
OpenAISettles(outcome) ==
  /\ awaiting # Null
  /\ LET error == openaiError(outcome)
         aiResponse == IF error = Null THEN outcome.content ELSE FallbackContent(error)
     IN response' = Response(200, AiResponse(aiResponse, "text", error))
  /\ replies' = replies + 1
  /\ awaiting' = Null
  /\ settled' = outcome
  /\ UNCHANGED <<recognitionVars, sessionVars, handVars, messages, request, asyncVars, feedVars,
                 chatVars>>

NextAiChat ==
  \/ \E body \in AiBodies : AiChat(body)
  \/ \E outcome \in OpenAIOutcomes : OpenAISettles(outcome)

SpecAiChat == Init /\ [][NextAiChat]_vars

---------------------------------------------------------------------------
(* The template matcher applied to feature vectors of any values *)

\* a single-hand feature vector; the features no template constrains are fixed
HandVector(thumbToIndex, thumbAngle, indexAngle, pinkyAngle) ==
  [ thumbToWrist |-> 70, indexToWrist |-> 50, middleToWrist |-> 26, ringToWrist |-> 22,
    pinkyToWrist |-> 18, thumbAngle |-> thumbAngle, indexAngle |-> indexAngle,
    middleAngle |-> 180, ringAngle |-> 180, pinkyAngle |-> pinkyAngle,
    thumbToIndex |-> thumbToIndex, indexToMiddle |-> 24, middleToRing |-> 4,
    ringToPinky |-> 4 ]

RightVectors ==
  {HandVector(d, t, i, p) : d \in {5, 20, 25, 30}, t \in {35, 90},
                            i \in {NaN, 155, 165, 170}, p \in {90, 170}}
  \cup {[indexAngle |-> 165], [thumbToIndex |-> 30]}      \* vectors with features left out

LeftVectors == {HandVector(d, 90, 90, 90) : d \in {10, 30}}

PairVectors ==
  {[handsDistance |-> d, indexFingertipsDistance |-> t, leftHandHigher |-> FALSE,
    handsSymmetric |-> s] : d \in {20, 35, 60}, t \in {50, 80}, s \in BOOLEAN}

\* the shapes extractBothHandsFeatures returns: pair features exactly when both hands are there
FeatureVectors ==
  {[leftHand |-> l, rightHand |-> r, bothHands |-> b] :
     l \in LeftVectors, r \in RightVectors, b \in PairVectors}
  \cup {[leftHand |-> Null, rightHand |-> r, bothHands |-> Null] : r \in RightVectors \cup {Null}}
  \cup {[leftHand |-> l, rightHand |-> Null, bothHands |-> Null] : l \in LeftVectors}

InitMatch ==
  /\ features \in FeatureVectors
  /\ pc = "vector"
  /\ recentDetections = Loaded.recentDetections
  /\ lastSentDetection = Loaded.lastSentDetection
  /\ gestureData = Null
  /\ matchScores = Null
  /\ bestMatch = NullSign
  /\ highestScore = 0
  /\ result = Null
  /\ before = Loaded
  /\ lastEvent = NullSign
  /\ run = NewRun
  /\ fresh = [recentDetections |-> Loaded.recentDetections,
              lastSentDetection |-> Loaded.lastSentDetection, result |-> Null,
              wiped |-> FALSE]
  /\ streak = NoStreak
  /\ clean = Unspoiled
  /\ NoSessions
  /\ NoHandUtils
  /\ NoServer
  /\ NoAsync
  /\ NoFeed
  /\ NoChat
  /\ NoAiChat

\* the scoring loop and the search for the best match
MatchTemplates ==
  /\ pc = "vector"
  /\ matchScores' = MatchScores(features)
  /\ bestMatch' = BestOf(MatchScores(features)).bestMatch
  /\ highestScore' = BestOf(MatchScores(features)).highestScore
  /\ pc' = "matched"
  /\ UNCHANGED <<recentDetections, lastSentDetection, gestureData, features, result,
                 before, lastEvent, run, fresh, streak, clean>>
  /\ UNCHANGED <<sessionVars, handVars, serverVars, restVars>>

NextMatch == MatchTemplates

SpecMatch == InitMatch /\ [][NextMatch]_vars

---------------------------------------------------------------------------
(* Vocabulary of the properties *)

\* the latest step was a recognizeSign call that pushed its best match
Pushed == pc \in {"repeat", "event", "unsure"}
\* the latest step was a recognizeSign call
Called == pc \in {"noHands", "caught", "noMatch", "repeat", "event", "unsure"}
\* the latest call computed the scores
Scored == pc \in {"noMatch", "repeat", "event", "unsure"}

Occurrences(recent, l) == Cardinality({i \in 1..Len(recent) : recent[i] = l})
FirstAt(recent, l) == CHOOSE i \in 1..Len(recent) : recent[i] = l /\ \A j \in 1..(i - 1) : recent[j] # l

\* the most frequent label of a non-empty list, the earliest one among equally frequent labels
MostFrequent(recent) ==
  CHOOSE l \in {recent[i] : i \in 1..Len(recent)} :
    \A m \in {recent[i] : i \in 1..Len(recent)} :
      \/ Occurrences(recent, l) > Occurrences(recent, m)
      \/ Occurrences(recent, l) = Occurrences(recent, m) /\ FirstAt(recent, l) <= FirstAt(recent, m)

\* ten times the confidence of the latest call: 5 * score + frequency (of 5) * 1.0
Confidence10 ==
  5 * highestScore + Occurrences(recentDetections, MostFrequent(recentDetections)) * ScoreUnit

---------------------------------------------------------------------------
(* Properties *)

C2_NoRepeatedText == [][pc' = "event" => result'.text # lastEvent]_vars

\* C3: in a run of frames that starts at the reset state and whose best match is always the
\* same label with score 1.0, no event is returned in the first two frames and exactly one,
\* with that label, in the first n frames for every n >= 3.
C3_OneEventPerRun ==
  run.open =>
    /\ run.len < 3 => run.events = 0
    /\ run.len >= 3 => (run.events = 1 /\ lastEvent = run.label)

\* five HELLO frames at score 1.0 from the reset state
C3_FiveHellos ==
  run.open /\ run.label = "HELLO" /\ run.len = 5 /\ run.events = 1 /\ pc = "repeat"

\* C4: recentDetections never holds more than 5 labels, and a push appends the new label
\* after removing exactly the oldest one when 5 were held.
C4_BoundedFifo ==
  /\ Len(recentDetections) <= 5
  /\ Pushed =>
       \E l \in Signs :
         recentDetections = IF Len(before.recentDetections) = 5
                            THEN Append(Tail(before.recentDetections), l)
                            ELSE Append(before.recentDetections, l)

\* a push onto a full list whose oldest entry differs from the next one
C4_Evicted ==
  /\ Pushed
  /\ Len(before.recentDetections) = 5
  /\ before.recentDetections[1] # before.recentDetections[2]
  /\ Len(recentDetections) = 5

HasHand(gd, side) == \E i \in 1..Len(gd.hands) : gd.hands[i].handedness = side

\* C5: on a frame without a Left hand or without a Right hand every template that requires
\* both hands scores exactly 0, is not the best match and is not pushed.
C5_BothHandsRequired ==
  Scored =>
    \A sign \in {"THANK YOU", "NO", "PLEASE"} :
      (~HasHand(gestureData, "Left") \/ ~HasHand(gestureData, "Right")) =>
        /\ bothHandsSignPatterns[sign].requiresBothHands
        /\ matchScores[sign] = 0
        /\ bestMatch # sign
        /\ Pushed => recentDetections[Len(recentDetections)] # sign

\* a lone right hand whose thumbToIndex lies in the range THANK YOU asks of the right hand
C5_LoneHandFits ==
  /\ Scored
  /\ ~HasHand(gestureData, "Left")
  /\ features.rightHand # Null
  /\ features.rightHand.thumbToIndex >= 20 /\ features.rightHand.thumbToIndex <= 40
  /\ matchScores["THANK YOU"] = 0

Groups == {"bothHands", "leftHand", "rightHand"}

\* the (group, feature) pairs a template constrains
Constrained(sign) ==
  UNION { {<<g, f>> : f \in DOMAIN bothHandsSignPatterns[sign][g]} :
          g \in {h \in Groups : bothHandsSignPatterns[sign][h] # Null} }

\* those of them that the feature vector holds
Checked(sign, feats) ==
  {c \in Constrained(sign) : feats[c[1]] # Null /\ c[2] \in DOMAIN feats[c[1]]}

\* those of them whose value lies in the inclusive range or equals the flag
Matched(sign, feats) ==
  { c \in Checked(sign, feats) :
      LET want == bothHandsSignPatterns[sign][c[1]][c[2]]
          got == feats[c[1]][c[2]]
      IN IF want.type = "range"
         THEN got # NaN /\ want.min <= got /\ got <= want.max
         ELSE got = want.value }

\* score = matched / checked, and 0 when nothing was checked
IsRatio(score, sign, feats) ==
  LET checked == Cardinality(Checked(sign, feats))
      matched == Cardinality(Matched(sign, feats))
  IN /\ score >= 0 /\ score <= ScoreUnit
     /\ IF checked = 0 THEN score = 0 ELSE score * checked = matched * ScoreUnit

\* C6 as stated: the score of every template is matched / checked (0 when checked is 0)
\* and lies in [0, 1].
C6_ScoreIsRatio ==
  pc = "matched" => \A sign \in Signs : IsRatio(matchScores[sign], sign, features)

\* C6 as amended: the same, except that a template requiring both hands scores 0 when the
\* left or the right hand's features are missing.
C6_ScoreIsRatioOrHandMissing ==
  pc = "matched" =>
    \A sign \in Signs :
      IF /\ bothHandsSignPatterns[sign].requiresBothHands
         /\ (features.leftHand = Null \/ features.rightHand = Null)
      THEN matchScores[sign] = 0
      ELSE IsRatio(matchScores[sign], sign, features)

\* THANK YOU matching 3 of 4 while HELLO has thumbToIndex on its upper bound and indexAngle NaN
C6_PartialMatch ==
  /\ pc = "matched"
  /\ features.bothHands # Null
  /\ matchScores["THANK YOU"] = 3 * (ScoreUnit \div 4)
  /\ {"thumbToIndex", "indexAngle"} \subseteq DOMAIN features.rightHand
  /\ features.rightHand.thumbToIndex = 30
  /\ features.rightHand.indexAngle = NaN
  /\ matchScores["HELLO"] = ScoreUnit \div 2

\* every constrained feature of the template is present and sits on the midpoint or the flag
AtMidpoint(sign, feats) ==
  \A c \in Constrained(sign) :
    /\ feats[c[1]] # Null
    /\ c[2] \in DOMAIN feats[c[1]]
    /\ LET want == bothHandsSignPatterns[sign][c[1]][c[2]]
           got == feats[c[1]][c[2]]
       IN IF want.type = "range"
          THEN 2 * got = want.min + want.max
          ELSE got = want.value

\* C7: a template whose constrained features all sit on the midpoint of their range (or
\* equal their flag) scores 1.0; HELLO scores 1.0 at thumbToIndex 0.2 and indexAngle 170.
C7_MidpointScoresOne ==
  pc = "matched" =>
    /\ \A sign \in Signs : AtMidpoint(sign, features) => matchScores[sign] = ScoreUnit
    /\ ( /\ features.rightHand # Null
         /\ DOMAIN features.rightHand = DOMAIN HandVector(0, 0, 0, 0)
         /\ features.rightHand.thumbToIndex = 20
         /\ features.rightHand.indexAngle = 170 ) => matchScores["HELLO"] = ScoreUnit

\* THANK YOU, the template with a flag and all three groups, at its midpoints
C7_ThankYouAtMidpoint ==
  /\ pc = "matched"
  /\ AtMidpoint("THANK YOU", features)
  /\ matchScores["THANK YOU"] = ScoreUnit

\* the greatest score of the latest call, 0 when it computed none
TopScore ==
  IF Scored THEN CHOOSE t \in {matchScores[x] : x \in Signs} : \A x \in Signs : matchScores[x] <= t
  ELSE 0

\* C8: a call appends its best-match label exactly when that label's score is above 0.7;
\* otherwise it leaves recentDetections and lastSentDetection alone and returns null.
C8_PushAboveThreshold ==
  Called =>
    IF 10 * TopScore > 7 * ScoreUnit
    THEN /\ Pushed
         /\ matchScores[bestMatch] = TopScore
         /\ recentDetections = IF Len(before.recentDetections) = 5
                               THEN Append(Tail(before.recentDetections), bestMatch)
                               ELSE Append(before.recentDetections, bestMatch)
    ELSE /\ ~Pushed
         /\ recentDetections = before.recentDetections
         /\ lastSentDetection = before.lastSentDetection
         /\ result = Null

\* a best match of 0.5 arriving when there is something to leave alone
C8_BelowThreshold ==
  /\ pc = "noMatch"
  /\ bestMatch # NullSign
  /\ 10 * highestScore = 5 * ScoreUnit
  /\ before.recentDetections # <<>>
  /\ before.lastSentDetection # NullSign
  /\ recentDetections = before.recentDetections

\* C9: a call without gestureData, without hands or with an empty hands list returns null
\* through the first return and leaves recentDetections and lastSentDetection alone.
C9_NoHandsNoChange ==
  (Called /\ (gestureData = Null \/ "hands" \notin DOMAIN gestureData
                                 \/ gestureData.hands = <<>>)) =>
    /\ pc = "noHands"
    /\ result = Null
    /\ recentDetections = before.recentDetections
    /\ lastSentDetection = before.lastSentDetection

\* an empty hands list arriving when there is something to leave alone
C9_EmptyFrame ==
  /\ pc = "noHands"
  /\ gestureData = [hands |-> <<>>]
  /\ recentDetections # <<>>
  /\ lastSentDetection # NullSign

\* C10: resetRecognition leaves recentDetections empty and lastSentDetection null, whatever
\* they held (so a second reset changes nothing), and from then on every call returns what a
\* newly loaded service returns for the same frames.
C10_ResetIsFresh ==
  /\ pc = "reset" => (recentDetections = <<>> /\ lastSentDetection = NullSign)
  /\ fresh.recentDetections = recentDetections
  /\ fresh.lastSentDetection = lastSentDetection
  /\ fresh.result = result

\* an event returned after a reset that had detections and a sent label to clear
C10_EventAfterReset ==
  /\ fresh.wiped
  /\ pc = "event"
  /\ result = fresh.result

\* C11: lastSentDetection is the text of the latest event returned since the last reset
\* (null when there was none), and a step changes it only by returning an event or by
\* resetRecognition.
C11_LastSentIsLastEvent ==
  /\ lastSentDetection = lastEvent
  /\ lastSentDetection # before.lastSentDetection => pc \in {"event", "reset"}

\* an event whose text replaces another label sent before
C11_LabelReplaced ==
  /\ pc = "event"
  /\ before.lastSentDetection # NullSign
  /\ result.text # before.lastSentDetection
  /\ lastSentDetection = result.text

\* the greatest number of occurrences of one label in the list
Frequency(recent) ==
  CHOOSE n \in 0..Len(recent) :
    /\ \A l \in Signs : Occurrences(recent, l) <= n
    /\ n > 0 => \E l \in Signs : Occurrences(recent, l) = n

\* C12: the confidence of a returned event is (bestScore + frequency / 5) / 2, where
\* frequency counts the most frequent label of recentDetections after the push and 5 is the
\* capacity whatever the length of the list; it is above 0.7 and at most 1.
C12_ConfidenceFormula ==
  pc = "event" =>
    /\ 2 * 5 * result.confidence = 5 * highestScore + Frequency(recentDetections) * ScoreUnit
    /\ 10 * result.confidence > 7 * ScoreUnit
    /\ result.confidence <= ScoreUnit

\* an event at confidence 0.8 from a list of three equal labels (3 / 3 would give 1.0)
C12_ShortHistory ==
  /\ pc = "event"
  /\ Len(recentDetections) = 3
  /\ Frequency(recentDetections) = 3
  /\ highestScore = ScoreUnit
  /\ 10 * result.confidence = 8 * ScoreUnit

\* the position of a sign in the order of the table
KeyIndex(sign) == CHOOSE i \in 1..Len(SignOrder) : SignOrder[i] = sign

\* C13: the best match has the greatest score, which is above 0, and is the first sign in
\* table order among those with the greatest score; when every score is 0 there is no best
\* match and the call returns null.
C13_FirstOfTheBest ==
  Scored =>
    IF \A sign \in Signs : matchScores[sign] = 0
    THEN bestMatch = NullSign /\ result = Null
    ELSE /\ bestMatch \in Signs
         /\ highestScore = matchScores[bestMatch]
         /\ highestScore > 0
         /\ \A sign \in Signs :
              \/ matchScores[sign] < highestScore
              \/ matchScores[sign] = highestScore /\ KeyIndex(bestMatch) <= KeyIndex(sign)

\* HELLO and THANK YOU both at 1.0: HELLO, declared first, is the best match
C13_Tie ==
  /\ Scored
  /\ matchScores["HELLO"] = ScoreUnit
  /\ matchScores["THANK YOU"] = ScoreUnit
  /\ bestMatch = "HELLO"

\* the frame of the latest call makes the feature extraction throw
ExtractionFailed == ~NoHands(gestureData) /\ ExtractionThrows(gestureData.hands)

\* C14 as stated: a call on which the feature extraction fails ends by throwing the error
\* to its caller, not by returning.
C14_ErrorsPropagate == ExtractionFailed => pc = "thrown"

\* C14 as amended: no call ends by throwing; a call on which the feature extraction fails
\* returns null from the catch block, and landmarks of degenerate geometry (angles NaN)
\* cause no failure: the frame is scored like any other.
C14_ErrorsBecomeNull ==
  /\ pc # "thrown"
  /\ ExtractionFailed => (pc = "caught" /\ result = Null)
  /\ (~NoHands(gestureData) /\ ~ExtractionFailed) => Scored

\* a hand of 20 landmarks, caught
C14_ShortHandCaught ==
  /\ pc = "caught"
  /\ Len(gestureData.hands[1].landmarks) = 20
  /\ result = Null

\* C15: a call made for a session returns what the same call returns from a stabilizer that
\* has seen the frames of that session only.
C15_SessionsIsolated == session # 0 => result = alone[session].result

\* the positions of the hands with the given label
HandsOf(hands, side) == {i \in 1..Len(hands) : hands[i].handedness = side}

\* exactly one Left and one Right hand
OneOfEach(hands) ==
  Cardinality(HandsOf(hands, "Left")) = 1 /\ Cardinality(HandsOf(hands, "Right")) = 1

\* the height of landmark 9 of the hand with the given label
PalmY(hands, side) == At(hands[CHOOSE i \in HandsOf(hands, side) : TRUE].landmarks, 9).y

\* the hand moved by y += 0.2
Raised(hand) ==
  [handedness |-> hand.handedness,
   landmarks |-> [k \in 1..Len(hand.landmarks) |-> Shift(hand.landmarks[k], 0, 20, 0)]]

\* cur is prev with its Left or its Right hand moved by y += 0.2
OneHandRaised(prev, cur) ==
  /\ Len(prev) = Len(cur)
  /\ \E i \in HandsOf(prev, "Left") \cup HandsOf(prev, "Right") :
       cur = [prev EXCEPT ![i] = Raised(prev[i])]

LabelledHands(hands) == SelectSeq(hands, LAMBDA h : h.handedness \in {"Left", "Right"})

\* C17: the pair features are there exactly when the frame has a hand labelled Left and a
\* hand labelled Right, the features of a side exactly when a hand has that label, and a
\* frame gives the same features as the frame without its hands of other labels.
C17_PairNeedsBothSides ==
  pc = "extracted" =>
    /\ features.leftHand # Null <=> HasHand(gestureData, "Left")
    /\ features.rightHand # Null <=> HasHand(gestureData, "Right")
    /\ features.bothHands # Null <=>
         (HasHand(gestureData, "Left") /\ HasHand(gestureData, "Right"))
    /\ (previous # Null /\ previous.hands = LabelledHands(gestureData.hands))
       => features = previous.features

\* a Left hand with a hand of another label, after the same Left hand alone
C17_OtherLabelIgnored ==
  /\ pc = "extracted"
  /\ previous # Null
  /\ Len(gestureData.hands) = 2
  /\ HasHand(gestureData, "Left") /\ HasHand(gestureData, "Unknown")
  /\ previous.hands = LabelledHands(gestureData.hands)
  /\ features.leftHand # Null /\ features.rightHand = Null /\ features.bothHands = Null
  /\ features = previous.features

\* the two landmarks have the same coordinates, a missing z counting as 0
SameCoordinates(a, b) == a.x = b.x /\ a.y = b.y /\ Z(a) = Z(b)

\* C18: calculateDistance is not negative, is 0 exactly for two landmarks of the same
\* coordinates (a missing z counting as 0), and is the same in both orders.
C18_DistanceIsMetric ==
  pc = "distance" =>
    /\ measured.forward >= 0
    /\ measured.forward = 0 <=> SameCoordinates(points[1], points[2])
    /\ measured.forward = measured.backward

\* a landmark without z at distance 0.13 from one that differs from it in x, y and z
C18_MissingZ ==
  /\ pc = "distance"
  /\ "z" \notin DOMAIN points[1]
  /\ points[2] = Pt(points[1].x + 3, points[1].y + 4, 12)
  /\ measured.forward = 13

\* C19: calculateAngle gives the same angle when its two outer landmarks are swapped.
C19_AngleSymmetric == pc = "angle" => measured.forward = measured.backward

\* an angle of 60 degrees between two different outer landmarks, one of them without z
C19_SixtyDegrees ==
  /\ pc = "angle"
  /\ points[1] # points[3]
  /\ "z" \notin DOMAIN points[3]
  /\ measured.forward = 60
  /\ measured.backward = 60

\* the request carries content, type, userId and username
CompleteMessage(body) ==
  /\ body.content \notin {Undefined, ""}
  /\ body.type # Undefined /\ body.userId # Undefined /\ body.username # Undefined

\* C20: a POST with content, type, userId and username is answered 201 with the created
\* message, which carries those fields, an id and a timestamp and is held by the server;
\* a GET is answered with the messages held.
C20_PostCreatesMessage ==
  /\ (request # Null /\ request.method = "POST" /\ CompleteMessage(request.body)) =>
       /\ response.status = 201
       /\ response.body.content = request.body.content
       /\ response.body.type = request.body.type
       /\ response.body.userId = request.body.userId
       /\ response.body.username = request.body.username
       /\ response.body.id # Undefined /\ response.body.timestamp # Undefined
       /\ \E i \in 1..Len(messages) : messages[i] = response.body
  /\ (request # Null /\ request.method = "GET") =>
       (response.status = 200 /\ response.body = messages)

\* C21: with invocations of recognizeSign that overlap, every invocation returns what it
\* returns when the invocations run one after another in the order of the calls, and once
\* all of them have returned recentDetections and lastSentDetection are what they are then.
C21_CallsAreAtomic ==
  /\ \A i \in 1..Len(invocations) :
       Finished(invocations[i]) => invocations[i].result = invocations[i].expected
  /\ received # Null => received.result = received.expected
  /\ (\A i \in 1..Len(invocations) : Finished(invocations[i])) =>
       /\ recentDetections = serial.recentDetections
       /\ lastSentDetection = serial.lastSentDetection

\* two invocations whose callers have not resumed, the second one returning an event
C21_Overlap ==
  /\ Len(invocations) = 2
  /\ Finished(invocations[1])
  /\ invocations[2].at = "event"
  /\ lastSentDetection = invocations[2].result.text

\* C22: a returned event's label occurs at least 3 times in recentDetections as the call
\* leaves it, and the first two calls that push a label after the service was loaded or
\* reset return no event.
C22_ThreeBeforeEvent ==
  /\ pc = "event" => Occurrences(recentDetections, result.text) >= MIN_CONSISTENT_DETECTIONS
  /\ (Pushed /\ Len(recentDetections) < MIN_CONSISTENT_DETECTIONS) => result = Null

\* an event whose label occurs exactly 3 times among 5 recent detections
C22_ThreeOfFive ==
  /\ pc = "event"
  /\ Len(recentDetections) = 5
  /\ Occurrences(recentDetections, result.text) = 3
  /\ \E i \in 1..5 : recentDetections[i] # result.text

\* C23: the text of a returned event is a name of the template table and is the label that
\* occurs most often in recentDetections as the call leaves it, the one that occurs first
\* among equally frequent labels.
C23_TextIsMostFrequent ==
  pc = "event" =>
    /\ result.text \in Signs
    /\ result.text = MostFrequent(recentDetections)
    /\ \A l \in Signs :
         \/ Occurrences(recentDetections, l) < Occurrences(recentDetections, result.text)
         \/ l = result.text
         \/ /\ Occurrences(recentDetections, l) = Occurrences(recentDetections, result.text)
            /\ FirstAt(recentDetections, result.text) < FirstAt(recentDetections, l)

\* an event whose text is not the label of the frame that caused it
C23_NotTheCurrentLabel ==
  /\ pc = "event"
  /\ result.text # bestMatch
  /\ recentDetections[Len(recentDetections)] = bestMatch
  /\ result.text = MostFrequent(recentDetections)

\* C24: when 5 frames in a row have the best match L with a score above 0.7, and a label
\* other than L was sent last before the first of them, one of the 5 calls returns an event
\* with the text L.
C24_EventWithinFive == streak.len < 5

\* an event that came with the fourth frame of its label and not before
C24_FourthFrame ==
  /\ pc = "event"
  /\ streak.closed = 4
  /\ result.text = streak.label
  /\ before.lastSentDetection # result.text

\* the frame has hands and all of them are labelled Left
LeftOnly(gd) == ~NoHands(gd) /\ \A i \in 1..Len(gd.hands) : gd.hands[i].handedness = "Left"

\* C25: on a frame whose only hand is labelled Left every template scores 0, so there is no
\* best match, the call returns null, and recentDetections and lastSentDetection stay.
C25_LeftOnlyScoresNothing ==
  (Called /\ LeftOnly(gestureData) /\ ~ExtractionFailed) =>
    /\ \A sign \in Signs : matchScores[sign] = 0
    /\ bestMatch = NullSign
    /\ pc = "noMatch"
    /\ result = Null
    /\ recentDetections = before.recentDetections
    /\ lastSentDetection = before.lastSentDetection

\* a lone Left hand whose thumbToIndex lies in the range THANK YOU asks of the left hand,
\* arriving when there is something to leave alone
C25_LoneLeftHand ==
  /\ pc = "noMatch"
  /\ LeftOnly(gestureData)
  /\ features.leftHand.thumbToIndex = 30
  /\ features.rightHand = Null
  /\ recentDetections # <<>>
  /\ lastSentDetection # NullSign

\* C26: a call on a frame whose feature extraction throws returns null and leaves
\* recentDetections and lastSentDetection as they were, and every call returns what it
\* returns, and leaves what it leaves, when those frames are never given to the service.
C26_BadFrameLeavesNoTrace ==
  /\ (Called /\ ExtractionFailed) =>
       /\ result = Null
       /\ recentDetections = before.recentDetections
       /\ lastSentDetection = before.lastSentDetection
  /\ recentDetections = clean.recentDetections
  /\ lastSentDetection = clean.lastSentDetection
  /\ (Called /\ ~ExtractionFailed) => result = clean.result

\* the first event since the service was loaded or reset, with a frame whose extraction
\* threw among the frames before it
C26_EventAcrossBadFrame ==
  /\ pc = "event"
  /\ clean.skipped
  /\ Len(recentDetections) = 3
  /\ before.lastSentDetection = NullSign
  /\ clean.result = result

\* C27: two calls of onSignDetected are never less than 2000 ms apart.
C27_Cooldown ==
  (forwarded # Null /\ forwarded.previous # -1) =>
    forwarded.at - forwarded.previous >= DETECTION_COOLDOWN

\* the request could not be made, or its answer could not be parsed or read
RequestFailed(outcome) ==
  outcome.settled = "rejected" \/ ~outcome.body.json \/ outcome.body.value = Null

\* C28: a call of getAIResponse that ends has added exactly one message to the chat, after
\* the user message that caused the call: a message of the assistant, which is the fixed
\* apology when the request, the parsing or the reading of the answer failed and carries the
\* content of the answer otherwise; and it ends with isProcessing false.
C28_OneReplyPerCall ==
  completed # Null =>
    /\ completed.appended = 1
    /\ completed.replyAt = Len(chat)
    /\ completed.userAt < completed.replyAt
    /\ chat[completed.userAt].userId = "user"
    /\ chat[completed.replyAt] =
         IF RequestFailed(completed.outcome) THEN ErrorMessage
         ELSE ChatMessage(ContentOf(completed.outcome.body.value), "text", "ai-assistant")
    /\ ~isProcessing

\* the apology for an answer that is no JSON, added while another call is in progress and
\* after a later user message than its own
C28_ApologyAmidOthers ==
  /\ completed # Null
  /\ completed.outcome.settled = "resolved"
  /\ ~completed.outcome.body.json
  /\ chat[Len(chat)] = ErrorMessage
  /\ aiCalls # <<>>
  /\ completed.userAt < Len(chat) - 1

\* C29: isProcessing is true whenever a call of getAIResponse has not ended.
C29_ProcessingWhileInFlight == aiCalls # <<>> => isProcessing

\* C30: a request to aiChat has one response once nothing is awaited and none before; the
\* response is 500 exactly when the message was not sent; a sign message is answered 200
\* with a reply of generateSignResponse and without a call of OpenAI; a text message is
\* answered 200, with the content of the completion and no errorDetails when there is one,
\* and otherwise with errorDetails and the fallback that the code of the error selects
\* (invalid_api_key, rate_limit_exceeded, context_length_exceeded), then status 429, then
\* the generic one.
C30_OneResponse ==
  (request # Null /\ request.path = "/api/messages/ai-chat") =>
    /\ replies = IF awaiting = Null THEN 1 ELSE 0
    /\ awaiting # Null => response = Null /\ request.body.type # "sign"
    /\ awaiting = Null =>
         LET body == response.body
             sent == request.body.message # NoMessage
             code == IF settled # Null /\ settled.kind = "rejected"
                        /\ "code" \in DOMAIN settled.error
                     THEN settled.error.code ELSE Undefined
             tooMany == /\ settled # Null /\ settled.kind = "rejected"
                        /\ "status" \in DOMAIN settled.error
                        /\ settled.error.status = 429
         IN /\ response.status = IF sent THEN 200 ELSE 500
            /\ (sent /\ request.body.type = "sign") =>
                 /\ settled = Null
                 /\ body.type = "sign"
                 /\ "errorDetails" \notin DOMAIN body
                 /\ \/ body.content \in {signResponses[k] : k \in DOMAIN signResponses}
                    \/ /\ ToLowerCase(MessageContent(request.body.message))
                            \notin DOMAIN signResponses
                       /\ body.content \in
                            {"Ya raspoznal zhest \"" \o MessageContent(request.body.message)
                               \o "\". Eto interesno!",
                             "Ya poluchil vash zhest \"" \o MessageContent(request.body.message)
                               \o "\", no voznikla nebolshaya problema."}
            /\ (sent /\ request.body.type # "sign") =>
                 /\ settled # Null
                 /\ body.type = "text"
                 /\ IF settled.kind = "completion" /\ Truthy(settled.content)
                    THEN body.content = settled.content /\ "errorDetails" \notin DOMAIN body
                    ELSE /\ "errorDetails" \in DOMAIN body
                         /\ body.content =
                              CASE code = "invalid_api_key" ->
                                     "Oshibka konfiguratsii API. Obratites k administratoru."
                                [] code = "rate_limit_exceeded" ->
                                     "Prevyshen limit zaprosov. Poprobuyte pozzhe."
                                [] code = "context_length_exceeded" ->
                                     "Soobschenie slishkom dlinnoe. Pozhaluysta, sokratite ego."
                                [] OTHER ->
                                     IF tooMany
                                     THEN "Slishkom mnogo zaprosov. Podozhdite nemnogo."
                                     ELSE "Vremennaya oshibka servisa. Poprobuyte esche raz."

\* a text message whose OpenAI call fails with the code rate_limit_exceeded and the status
\* 429 has been answered
C30_RateLimited ==
  /\ request # Null /\ request.path = "/api/messages/ai-chat"
  /\ awaiting = Null /\ replies = 1
  /\ settled # Null /\ settled.kind = "rejected"
  /\ "code" \in DOMAIN settled.error /\ settled.error.code = "rate_limit_exceeded"
  /\ "status" \in DOMAIN settled.error /\ settled.error.status = 429
  /\ response.status = 200
  /\ response.body.content = "Prevyshen limit zaprosov. Poprobuyte pozzhe."
  /\ "errorDetails" \in DOMAIN response.body

====
